---------------------------- MODULE Spec2Model ----------------------------
(***************************************************************************)
(* Distributor Product Lookup Widget (Zoho CRM Quotes), "UI Redesign v2":   *)
(* the catalog browsing state machine, the per-page selection, the          *)
(* persistent "Products to Quote" queue with drag reordering, and the       *)
(* hand-over of the queue to the host.                                      *)
(*                                                                         *)
(* The model follows src/unnamed/part_000, lines 1185-2685 (the variant     *)
(* with manufacturer grouping).  `state.x` of the source is the variable x; *)
(* the parts of the DOM the handlers read back (table rows, queue list,     *)
(* select boxes, pager, status bar) are variables named after the element   *)
(* ids.  An absent or empty JavaScript value ('' / undefined / null) is the *)
(* empty string "" or the empty tuple <<>>, as the code only tests it for   *)
(* truthiness.                                                              *)
(*                                                                         *)
(* Two handlers of other revisions are modelled next to it, each under a    *)
(* specification of its own: the type-ahead SKU search of the revision      *)
(* before the queue (src/unnamed/part_000, lines 391-449), and the page     *)
(* display and commit of src/js/widget.js (lines 1274-1512).                *)
(***************************************************************************)
EXTENDS Integers, Sequences, FiniteSets, TLC

(***************************************************************************)
(* Bounds of the model.                                                     *)
(***************************************************************************)
\* Requests the catalog service may hold unanswered at a time.
MaxFetches == 1
\* Largest page number the catalog service reports.
MaxPage == 2
\* Option-list requests that calls of loadFilterOptions on its own may leave
\* unanswered at a time.
MaxFilterFetches == 2
\* Searches the catalog service may hold unanswered at a time.
MaxSearches == 2
\* const PAGE_SIZE
PAGE_SIZE == 50

(***************************************************************************)
(* Data.  A part number is <<letters, number>> ("A10" is <<"A", 10>>), so   *)
(* that natural ordering can be computed; <<>> is a missing part number.    *)
(***************************************************************************)
NoPart == <<>>
NoPricing == <<>>

ProdA ==
    [ingramPartNumber |-> <<"I", 1>>, vendorPartNumber |-> <<"A", 10>>,
     vendorName |-> "Acme", category |-> "Laptops", subCategory |-> "",
     pricingData |-> <<20>>]
ProdB ==
    [ingramPartNumber |-> NoPart, vendorPartNumber |-> <<"A", 2>>,
     vendorName |-> "", category |-> "", subCategory |-> "",
     pricingData |-> NoPricing]
ProdC ==
    [ingramPartNumber |-> <<"I", 3>>, vendorPartNumber |-> <<"a", 1>>,
     vendorName |-> "Zeta", category |-> "", subCategory |-> "Ultrabooks",
     pricingData |-> NoPricing]

Manufacturers == {"Acme", "Zeta"}
Categories == {"Laptops"}
Subcategories == {"Ultrabooks"}
SkuTypes == {"IM::physical"}
\* A catalog whose subcategories differ from one category to the other.
CatalogCategories == Categories \cup {"Phones"}
CatalogSubcategories == Subcategories \cup {"Android"}
\* Contents of the manufacturer search box, as sequences of characters.
SearchInputs == {<<>>, <<"a">>, <<"a", "c">>, <<"z", " ">>, <<"z", "e">>}
\* Contents of the keyword box, as sequences of characters.
KeywordInputs == {<<>>, <<"k", "w">>, <<" ", "k">>}

DISTRIBUTORS ==
    [ingram   |-> [name |-> "Ingram Micro", disabled |-> FALSE],
     tdsynnex |-> [name |-> "TD SYNNEX", disabled |-> TRUE],
     arrow    |-> [name |-> "Arrow", disabled |-> TRUE]]

(***************************************************************************)
(* Helpers on sequences.                                                    *)
(***************************************************************************)
Range(s) == {s[i] : i \in 1..Len(s)}

RemoveAt(s, i) == SubSeq(s, 1, i - 1) \o SubSeq(s, i + 1, Len(s))

\* p.ingramPartNumber || p.vendorPartNumber
PartNumberOf(p) ==
    IF p.ingramPartNumber # NoPart THEN p.ingramPartNumber ELSE p.vendorPartNumber

Ids(s) == {PartNumberOf(s[i]) : i \in 1..Len(s)}


(***************************************************************************)
(* Natural ordering of vendor part numbers:                                 *)
(* a.toLowerCase().localeCompare(b.toLowerCase(), undefined,                *)
(*                               {numeric: true, sensitivity: 'base'})      *)
(***************************************************************************)
toLowerCase(l) == IF l = "A" THEN "a" ELSE IF l = "I" THEN "i" ELSE l
LetterRank(l) == IF l = "a" THEN 1 ELSE IF l = "i" THEN 2 ELSE 3

\* Variant of localeCompare: the plain comparison of a and b by code units,
\* upper case before lower case and digits one character at a time.
CodeUnit(l) == IF l = "A" THEN 65 ELSE IF l = "I" THEN 73
               ELSE IF l = "a" THEN 97 ELSE IF l = "i" THEN 105 ELSE 122
Digits(n) == IF n < 10 THEN <<n>> ELSE <<n \div 10, n % 10>>
localeCompareByCodeUnit(a, b) ==
    IF a = NoPart /\ b = NoPart THEN 0
    ELSE IF a = NoPart THEN -1
    ELSE IF b = NoPart THEN 1
    ELSE IF CodeUnit(a[1]) < CodeUnit(b[1]) THEN -1
    ELSE IF CodeUnit(a[1]) > CodeUnit(b[1]) THEN 1
    ELSE LET da == Digits(a[2])
             db == Digits(b[2])
         IN  IF da[1] < db[1] THEN -1
             ELSE IF da[1] > db[1] THEN 1
             ELSE IF Len(da) < Len(db) THEN -1
             ELSE IF Len(da) > Len(db) THEN 1
             ELSE IF Len(da) = 1 \/ da[2] = db[2] THEN 0
             ELSE IF da[2] < db[2] THEN -1 ELSE 1

\* -1, 0 or 1 as part number a sorts before, with or after b.
localeCompare(a, b) ==
    IF a = NoPart /\ b = NoPart THEN 0
    ELSE IF a = NoPart THEN -1
    ELSE IF b = NoPart THEN 1
    ELSE LET la == LetterRank(toLowerCase(a[1]))
             lb == LetterRank(toLowerCase(b[1]))
         IN  IF la < lb THEN -1
             ELSE IF la > lb THEN 1
             ELSE IF a[2] < b[2] THEN -1
             ELSE IF a[2] > b[2] THEN 1
             ELSE 0

\* Stable insertion of p into the sorted sequence s.
RECURSIVE InsertSorted(_, _)
InsertSorted(s, p) ==
    IF s = <<>> THEN <<p>>
    ELSE IF localeCompare(p.vendorPartNumber, Head(s).vendorPartNumber) < 0
         THEN <<p>> \o s
         ELSE <<Head(s)>> \o InsertSorted(Tail(s), p)

\* [...products].sort(by vendor part number), a stable sort.
RECURSIVE SortProducts(_)
SortProducts(products) ==
    IF products = <<>> THEN <<>>
    ELSE InsertSorted(SortProducts(SubSeq(products, 1, Len(products) - 1)),
                      products[Len(products)])

(***************************************************************************)
(* JavaScript Map keyed by part number, in insertion order: a sequence of   *)
(* products with distinct part numbers.                                     *)
(***************************************************************************)
MapHas(m, k) == \E i \in 1..Len(m) : PartNumberOf(m[i]) = k

MapSet(m, k, v) ==
    IF MapHas(m, k)
    THEN [i \in 1..Len(m) |-> IF PartNumberOf(m[i]) = k THEN v ELSE m[i]]
    ELSE Append(m, v)

MapDelete(m, k) == SelectSeq(m, LAMBDA p : PartNumberOf(p) # k)

(***************************************************************************)
(* state.pricingData: a function from the cached ingram part numbers to     *)
(* their pricing record.                                                    *)
(***************************************************************************)
EmptyCache == [k \in {} |-> NoPricing]
CacheGet(cache, k) == IF k \in DOMAIN cache THEN cache[k] ELSE NoPricing
CachePut(cache, k, v) ==
    [x \in DOMAIN cache \cup {k} |-> IF x = k THEN v ELSE cache[x]]

(***************************************************************************)
(* The state.                                                               *)
(***************************************************************************)
VARIABLES
    \* the `state` object
    currentDistributor, manufacturer, category, subcategory, skuType,
    skuKeyword, loadingFilters, filterParams, currentPage, totalRecords,
    totalPages, selectedProducts, queuedProducts, groupByManufacturer,
    currentProducts, pricingData,
    \* module-level drag references
    draggedItem, draggedGroup,
    \* DOM read back by the handlers
    productsBody,        \* table rows: <<[product, disabled]>>
    pagination,          \* pager: <<>> or <<[page, totalPages]>>
    productCount,        \* the number #productCount shows
    queueItems,          \* children of #queueItems
    queueList,           \* TRUE iff #queueList is displayed
    categorySelect, subcategorySelect,
    filterStatus,        \* last showStatus(message, type)
    productDetailsSection, \* the details panel: displayed?, what it shows
    manufacturerSearch,  \* what the manufacturer search box holds
    manufacturerSelect,  \* placeholder and options of #manufacturerSelect
    skuSearch,           \* what the keyword box holds
    skuSelect,           \* #skuSelect: displayed?, placeholder, options
    \* module-level timers: the number of timeouts set and still pending
    searchTimeout, skuSearchTimeout,
    \* environment
    productFetches,      \* page requests awaiting their response
    filterFetches,       \* option-list requests awaiting their response
    detailsFetches,      \* showProductDetails calls awaiting their fetches,
                         \* each knowing whether a call was made after it
    searchFetches,       \* manufacturer searches awaiting their response
    skuFetches,          \* keyword searches awaiting their response
    clientDefined,       \* typeof $Client !== 'undefined'
    hostReceived         \* <<what $Client.close was called with>>, <<>> if never

filterVars == <<manufacturer, category, subcategory, skuType, skuKeyword,
                loadingFilters, filterParams, categorySelect,
                subcategorySelect, filterFetches>>
pageVars   == <<currentPage, totalRecords, totalPages, currentProducts,
                pricingData, productsBody, pagination, productCount,
                productFetches>>
queueVars  == <<queuedProducts, groupByManufacturer, queueItems, queueList>>
dragVars   == <<draggedItem, draggedGroup>>
hostVars   == <<currentDistributor, clientDefined, hostReceived>>
detailVars == <<productDetailsSection, detailsFetches>>
searchVars == <<manufacturerSearch, manufacturerSelect, searchTimeout,
                searchFetches>>
skuSearchVars == <<skuSelect, skuSearchTimeout, skuFetches>>
vars == <<filterVars, pageVars, queueVars, dragVars, hostVars, detailVars,
          searchVars, skuSearch, skuSearchVars, selectedProducts,
          filterStatus>>

\* A DOM element of the queue list: a manufacturer header or a queue item.
NoElement == [cls |-> "", manufacturer |-> "", partNumber |-> NoPart]
GroupElement(mfr) ==
    [cls |-> "queue-mfr-group", manufacturer |-> mfr, partNumber |-> NoPart]
ItemElement(pn) ==
    [cls |-> "queue-item", manufacturer |-> "", partNumber |-> pn]

\* A select box: its placeholder option, its value options, the chosen value.
EmptySelect == [first |-> "-- Any --", items |-> {}, value |-> ""]

\* showStatus(message, type): the type, and the count the message reports.
Status(type, n) == [type |-> type, n |-> n]

NoParams == <<>>

\* #manufacturerSelect and #skuSelect before any search.
NoManufacturers == [first |-> "Type to search manufacturers...", items |-> {}]
NoSkus == [display |-> FALSE, first |-> "Type to search SKUs...",
           items |-> <<>>]

Init ==
    /\ currentDistributor = "ingram"
    /\ manufacturer = ""
    /\ category = ""
    /\ subcategory = ""
    /\ skuType = ""
    /\ skuKeyword = <<>>
    /\ loadingFilters = [category |-> FALSE, subcategory |-> FALSE]
    /\ filterParams = [category |-> NoParams, subcategory |-> NoParams]
    /\ currentPage = 1
    /\ totalRecords = 0
    /\ totalPages = 1
    /\ selectedProducts = <<>>
    /\ queuedProducts = <<>>
    /\ groupByManufacturer = TRUE
    /\ currentProducts = <<>>
    /\ pricingData = EmptyCache
    /\ draggedItem = NoElement
    /\ draggedGroup = NoElement
    /\ productsBody = <<>>
    /\ pagination = <<>>
    /\ productCount = 0
    /\ queueItems = <<>>
    /\ queueList = FALSE
    /\ categorySelect = EmptySelect
    /\ subcategorySelect = EmptySelect
    /\ filterStatus = Status("", 0)
    /\ productFetches = <<>>
    /\ filterFetches = <<>>
    /\ productDetailsSection = [display |-> FALSE, shown |-> <<>>]
    /\ detailsFetches = <<>>
    /\ manufacturerSearch = <<>>
    /\ manufacturerSelect = NoManufacturers
    /\ searchTimeout = 0
    /\ searchFetches = <<>>
    /\ skuSearch = <<>>
    /\ skuSelect = NoSkus
    /\ skuSearchTimeout = 0
    /\ skuFetches = <<>>
    /\ clientDefined \in BOOLEAN
    /\ hostReceived = <<>>

\* The widget opened inside the host: the SDK defines $Client.
InitInHost == Init /\ clientDefined = TRUE

(***************************************************************************)
(* Rendering.                                                               *)
(***************************************************************************)
\* product.vendorName || state.manufacturer || 'Unknown'
GroupOf(p, mfr) ==
    IF p.vendorName # "" THEN p.vendorName
    ELSE IF mfr # "" THEN mfr ELSE "Unknown"

\* Position of a name in Array.prototype.sort()'s default (code unit) order.
NameRank(name) ==
    IF name = "Acme" THEN 1 ELSE IF name = "Unknown" THEN 2 ELSE 3

\* Object.keys(groups).sort()
RECURSIVE SortNames(_)
SortNames(S) ==
    IF S = {} THEN <<>>
    ELSE LET least == CHOOSE x \in S : \A y \in S : NameRank(x) <= NameRank(y)
         IN  <<least>> \o SortNames(S \ {least})

createQueueItemElement(product) == ItemElement(PartNumberOf(product))

RECURSIVE RenderGroups(_, _, _)
RenderGroups(names, queue, mfr) ==
    IF names = <<>> THEN <<>>
    ELSE LET members == SelectSeq(queue, LAMBDA p : GroupOf(p, mfr) = Head(names))
         IN  <<GroupElement(Head(names))>>
             \o [i \in 1..Len(members) |-> createQueueItemElement(members[i])]
             \o RenderGroups(Tail(names), queue, mfr)

\* The children renderQueueItems() gives #queueItems.
renderQueueItems(queue, grouped, mfr) ==
    IF grouped
    THEN RenderGroups(SortNames({GroupOf(queue[i], mfr) : i \in 1..Len(queue)}),
                      queue, mfr)
    ELSE [i \in 1..Len(queue) |-> createQueueItemElement(queue[i])]

\* updateQueueUI() once state.queuedProducts is `queue`.
updateQueueUI(queue) ==
    /\ queueList' = (Len(queue) # 0)
    /\ queueItems' = IF Len(queue) = 0 THEN queueItems
                     ELSE renderQueueItems(queue, groupByManufacturer, manufacturer)

\* Variant of isQueued: the queue is never consulted.
isQueuedNever(queue, partNumber) == FALSE

\* state.queuedProducts.some(p => partNumberOf(p) === partNumber)
isQueued(queue, partNumber) ==
    \E i \in 1..Len(queue) : PartNumberOf(queue[i]) = partNumber

RECURSIVE CacheFill(_, _)
CacheFill(cache, products) ==
    IF products = <<>> THEN cache
    ELSE LET p == Head(products)
         IN  CacheFill(IF p.pricingData # NoPricing /\ p.ingramPartNumber # NoPart
                       THEN CachePut(cache, p.ingramPartNumber, p.pricingData)
                       ELSE cache,
                       Tail(products))

\* Variant of ProductRows: the check box of a queued product stays enabled.
ProductRowsAllEnabled(sortedProducts, queue) ==
    [i \in 1..Len(sortedProducts) |->
        [product |-> sortedProducts[i], disabled |-> FALSE]]

\* The rows displayProductsWithPricing builds for the sorted products.
ProductRows(sortedProducts, queue) ==
    [i \in 1..Len(sortedProducts) |->
        [product  |-> sortedProducts[i],
         disabled |-> isQueued(queue, PartNumberOf(sortedProducts[i]))]]

\* renderPagination(pagination); <<>> is a missing pagination object.
renderPagination(pager) ==
    IF pager = <<>> \/ pager[1].totalPages <= 1 THEN <<>>
    ELSE <<[page |-> pager[1].page, totalPages |-> pager[1].totalPages]>>

\* displayProductsWithPricing(products, pagination) while
\* state.queuedProducts is `queue` and state.totalRecords is `records`.
displayProductsWithPricing(products, pager, queue, records) ==
    LET sortedProducts == SortProducts(products)
    IN  /\ currentProducts' = sortedProducts
        /\ pricingData' = CacheFill(EmptyCache, sortedProducts)
        /\ productsBody' = ProductRows(sortedProducts, queue)
        /\ productCount' = records
        /\ pagination' = renderPagination(pager)

(***************************************************************************)
(* The user acts on the page only while no drag is under way and the host   *)
(* has not closed the widget: $Client.close ends the popup.                 *)
(***************************************************************************)
Closed == hostReceived # <<>>
Dragging == draggedItem # NoElement \/ draggedGroup # NoElement
UserCanAct == ~Closed /\ ~Dragging

\* The requests awaiting their response; a handler about to send one more
\* runs only while the service can take it.
Outstanding ==
    Len(productFetches) + Len(filterFetches) + Len(detailsFetches)
MayFetch == Outstanding < MaxFetches
MaySearch == Len(searchFetches) + Len(skuFetches) < MaxSearches

(***************************************************************************)
(* Product selection.                                                       *)
(***************************************************************************)
\* toggleProduct(partNumber, isChecked) applied to the rows in order.
RECURSIVE ToggleRows(_, _, _, _)
ToggleRows(rows, selected, partNumber, isChecked) ==
    IF rows = <<>> THEN selected
    ELSE LET product == Head(rows).product
             next == IF PartNumberOf(product) = partNumber
                     THEN IF isChecked THEN MapSet(selected, partNumber, product)
                          ELSE MapDelete(selected, partNumber)
                     ELSE selected
         IN  ToggleRows(Tail(rows), next, partNumber, isChecked)

\* The change event of the check box of row i.
toggleProduct(i, isChecked) ==
    /\ UserCanAct
    /\ i \in 1..Len(productsBody)
    /\ ~productsBody[i].disabled
    /\ selectedProducts' =
           ToggleRows(productsBody, selectedProducts,
                      PartNumberOf(productsBody[i].product), isChecked)
    /\ UNCHANGED <<filterVars, pageVars, queueVars, dragVars, hostVars, detailVars,
                   filterStatus>>
    /\ UNCHANGED <<searchVars, skuSearch, skuSearchVars>>

\* Variant of toggleProductByPartNumber: unticking forgets the part number
\* whatever the rows.
toggleProductWithoutRows(partNumber, isChecked) ==
    /\ UserCanAct
    /\ selectedProducts' =
           IF isChecked
           THEN ToggleRows(productsBody, selectedProducts, partNumber, isChecked)
           ELSE MapDelete(selectedProducts, partNumber)
    /\ UNCHANGED <<filterVars, pageVars, queueVars, dragVars, hostVars, detailVars,
                   filterStatus>>
    /\ UNCHANGED <<searchVars, skuSearch, skuSearchVars>>

\* toggleProduct(partNumber, isChecked) called with any part number, that of
\* a row no longer drawn included.
toggleProductByPartNumber(partNumber, isChecked) ==
    /\ UserCanAct
    /\ selectedProducts' =
           ToggleRows(productsBody, selectedProducts, partNumber, isChecked)
    /\ UNCHANGED <<filterVars, pageVars, queueVars, dragVars, hostVars, detailVars,
                   filterStatus>>
    /\ UNCHANGED <<searchVars, skuSearch, skuSearchVars>>

\* The check boxes '#productsBody input[type="checkbox"]:not(:disabled)'.
EnabledRows(rows) == SelectSeq(rows, LAMBDA r : ~r.disabled)

RECURSIVE SelectAllRows(_, _, _)
SelectAllRows(rows, selected, selectAllChecked) ==
    IF rows = <<>> THEN selected
    ELSE LET product == Head(rows).product
             pn == PartNumberOf(product)
         IN  SelectAllRows(Tail(rows),
                           IF selectAllChecked THEN MapSet(selected, pn, product)
                           ELSE MapDelete(selected, pn),
                           selectAllChecked)

toggleSelectAll(selectAllChecked) ==
    /\ UserCanAct
    /\ selectedProducts' =
           SelectAllRows(EnabledRows(productsBody), selectedProducts,
                         selectAllChecked)
    /\ UNCHANGED <<filterVars, pageVars, queueVars, dragVars, hostVars, detailVars,
                   filterStatus>>
    /\ UNCHANGED <<searchVars, skuSearch, skuSearchVars>>

(***************************************************************************)
(* Queue management.                                                        *)
(***************************************************************************)
\* Variant of PushSelected: every product goes to the front of the queue.
RECURSIVE PushSelectedInFront(_, _, _, _)
PushSelectedInFront(selectedArray, queue, addedCount, cache) ==
    IF selectedArray = <<>> THEN [queue |-> queue, addedCount |-> addedCount]
    ELSE PushSelectedInFront(Tail(selectedArray), <<Head(selectedArray)>> \o queue,
                             addedCount + 1, cache)

\* The forEach of addSelectedToQueue: the queue and addedCount after the
\* products of selectedArray have been visited in order.
RECURSIVE PushSelected(_, _, _, _)
PushSelected(selectedArray, queue, addedCount, cache) ==
    IF selectedArray = <<>> THEN [queue |-> queue, addedCount |-> addedCount]
    ELSE LET product == Head(selectedArray)
             alreadyQueued == isQueued(queue, PartNumberOf(product))
             enrichedProduct ==
                 [product EXCEPT !.pricingData =
                     IF product.pricingData # NoPricing THEN product.pricingData
                     ELSE CacheGet(cache, product.ingramPartNumber)]
         IN  IF ~alreadyQueued
             THEN PushSelected(Tail(selectedArray), Append(queue, enrichedProduct),
                               addedCount + 1, cache)
             ELSE PushSelected(Tail(selectedArray), queue, addedCount, cache)

addSelectedToQueue ==
    /\ UserCanAct
    /\ IF Len(selectedProducts) = 0
       THEN /\ filterStatus' = Status("error", 0)
            /\ UNCHANGED <<filterVars, pageVars, queueVars, dragVars, hostVars, detailVars,
                           selectedProducts>>
       ELSE LET pushed == PushSelected(selectedProducts, queuedProducts, 0,
                                       pricingData)
            IN  /\ queuedProducts' = pushed.queue
                /\ selectedProducts' = <<>>
                /\ IF Len(currentProducts) > 0
                   THEN displayProductsWithPricing(
                            currentProducts,
                            <<[page |-> currentPage, totalPages |-> totalPages,
                               totalRecords |-> totalRecords]>>,
                            pushed.queue, totalRecords)
                   ELSE UNCHANGED <<currentProducts, pricingData, productsBody,
                                    pagination, productCount>>
                /\ updateQueueUI(pushed.queue)
                /\ filterStatus' =
                       IF pushed.addedCount > 0
                       THEN Status("success", pushed.addedCount)
                       ELSE Status("info", 0)
                /\ UNCHANGED <<filterVars, currentPage, totalRecords, totalPages,
                               productFetches, groupByManufacturer, dragVars,
                               hostVars, detailVars>>
    /\ UNCHANGED <<searchVars, skuSearch, skuSearchVars>>

\* The rows after removeFromQueue re-enabled those showing partNumber.
EnableRows(rows, partNumber) ==
    [i \in 1..Len(rows) |->
        IF rows[i].disabled /\ PartNumberOf(rows[i].product) = partNumber
        THEN [rows[i] EXCEPT !.disabled = FALSE] ELSE rows[i]]

\* Variant of removeFromQueue: the entry is found by the position of its item
\* in the list.
removeFromQueueByPosition(i) ==
    /\ UserCanAct
    /\ queueList
    /\ i \in 1..Len(queueItems)
    /\ queueItems[i].cls = "queue-item"
    /\ LET partNumber == queueItems[i].partNumber
           queue == IF i \in 1..Len(queuedProducts)
                    THEN RemoveAt(queuedProducts, i) ELSE queuedProducts
       IN  /\ queuedProducts' = queue
           /\ updateQueueUI(queue)
           /\ productsBody' = EnableRows(productsBody, partNumber)
    /\ UNCHANGED <<filterVars, currentPage, totalRecords, totalPages,
                   currentProducts, pricingData, pagination, productCount,
                   productFetches,
                   groupByManufacturer, dragVars, hostVars, detailVars, selectedProducts,
                   filterStatus>>
    /\ UNCHANGED <<searchVars, skuSearch, skuSearchVars>>

\* The remove button of the i-th child of #queueItems.
removeFromQueue(i) ==
    /\ UserCanAct
    /\ queueList
    /\ i \in 1..Len(queueItems)
    /\ queueItems[i].cls = "queue-item"
    /\ LET partNumber == queueItems[i].partNumber
           queue == SelectSeq(queuedProducts,
                              LAMBDA p : PartNumberOf(p) # partNumber)
       IN  /\ queuedProducts' = queue
           /\ updateQueueUI(queue)
           /\ productsBody' = EnableRows(productsBody, partNumber)
    /\ UNCHANGED <<filterVars, currentPage, totalRecords, totalPages,
                   currentProducts, pricingData, pagination, productCount,
                   productFetches,
                   groupByManufacturer, dragVars, hostVars, detailVars, selectedProducts,
                   filterStatus>>
    /\ UNCHANGED <<searchVars, skuSearch, skuSearchVars>>

clearQueue ==
    /\ UserCanAct
    /\ queuedProducts' = <<>>
    /\ updateQueueUI(<<>>)
    /\ productsBody' = [i \in 1..Len(productsBody) |->
                           [productsBody[i] EXCEPT !.disabled = FALSE]]
    /\ filterStatus' = Status("info", 0)
    /\ UNCHANGED <<filterVars, currentPage, totalRecords, totalPages,
                   currentProducts, pricingData, pagination, productCount,
                   productFetches,
                   groupByManufacturer, dragVars, hostVars, detailVars, selectedProducts>>
    /\ UNCHANGED <<searchVars, skuSearch, skuSearchVars>>

toggleGroupByManufacturer ==
    /\ UserCanAct
    /\ groupByManufacturer' = ~groupByManufacturer
    /\ queueItems' = renderQueueItems(queuedProducts, ~groupByManufacturer,
                                      manufacturer)
    /\ UNCHANGED <<filterVars, pageVars, queuedProducts, queueList, dragVars,
                   hostVars, detailVars, selectedProducts, filterStatus>>
    /\ UNCHANGED <<searchVars, skuSearch, skuSearchVars>>

(***************************************************************************)
(* Handing the queue to the host.                                           *)
(***************************************************************************)
\* Variant of FormatProduct: the source is the distributor's id, not its name.
FormatProductSourceId(product) ==
    [Product_Code     |-> product.vendorPartNumber,
     Manufacturer     |-> product.vendorName,
     Ingram_Micro_SKU |-> product.ingramPartNumber,
     MSRP             |-> product.pricingData,
     Category         |-> product.category,
     Subcategory      |-> product.subCategory,
     Last_Sync_Source |-> currentDistributor,
     Quantity         |-> 1]

\* The record submitQueue formats for one queued product.
FormatProduct(product) ==
    LET pricing == IF product.pricingData # NoPricing THEN product.pricingData
                   ELSE CacheGet(pricingData, product.ingramPartNumber)
    IN  [Product_Code     |-> product.vendorPartNumber,
         Manufacturer     |-> IF product.vendorName # "" THEN product.vendorName
                              ELSE manufacturer,
         Ingram_Micro_SKU |-> product.ingramPartNumber,
         MSRP             |-> pricing,
         Category         |-> IF product.category # "" THEN product.category
                              ELSE category,
         Subcategory      |-> IF product.subCategory # "" THEN product.subCategory
                              ELSE subcategory,
         Last_Sync_Source |-> IF currentDistributor \in DOMAIN DISTRIBUTORS
                              THEN DISTRIBUTORS[currentDistributor].name
                              ELSE "Ingram Micro",
         Quantity         |-> 1]

formattedProducts ==
    [i \in 1..Len(queuedProducts) |-> FormatProduct(queuedProducts[i])]

\* Variant of submitQueue: the queue is handed over even when it is empty.
submitQueueUnchecked ==
    /\ UserCanAct
    /\ IF clientDefined
       THEN /\ hostReceived' = <<[products |-> formattedProducts,
                                  distributor |-> currentDistributor]>>
            /\ UNCHANGED filterStatus
       ELSE /\ filterStatus' = Status("info", Len(formattedProducts))
            /\ UNCHANGED hostReceived
    /\ UNCHANGED <<filterVars, pageVars, queueVars, dragVars, detailVars,
                   currentDistributor, clientDefined, selectedProducts>>
    /\ UNCHANGED <<searchVars, skuSearch, skuSearchVars>>

submitQueue ==
    /\ UserCanAct
    /\ IF Len(queuedProducts) = 0
       THEN /\ filterStatus' = Status("error", 0)
            /\ UNCHANGED hostReceived
       ELSE IF clientDefined
            THEN /\ hostReceived' = <<[products |-> formattedProducts,
                                       distributor |-> currentDistributor]>>
                 /\ UNCHANGED filterStatus
            ELSE /\ filterStatus' = Status("info", Len(formattedProducts))
                 /\ UNCHANGED hostReceived
    /\ UNCHANGED <<filterVars, pageVars, queueVars, dragVars, detailVars,
                   currentDistributor, clientDefined, selectedProducts>>
    /\ UNCHANGED <<searchVars, skuSearch, skuSearchVars>>

\* Variant of cancelSelection: the selection is cleared, the queue is kept.
cancelSelectionKeepingQueue ==
    /\ UserCanAct
    /\ hostReceived' = IF clientDefined
                       THEN <<[cancelled |-> TRUE, products |-> <<>>]>>
                       ELSE hostReceived
    /\ selectedProducts' = <<>>
    /\ UNCHANGED <<filterVars, pageVars, queueVars, dragVars, detailVars,
                   currentDistributor, clientDefined, filterStatus>>
    /\ UNCHANGED <<searchVars, skuSearch, skuSearchVars>>

cancelSelection ==
    /\ UserCanAct
    /\ hostReceived' = IF clientDefined
                       THEN <<[cancelled |-> TRUE, products |-> <<>>]>>
                       ELSE hostReceived
    /\ selectedProducts' = <<>>
    /\ queuedProducts' = <<>>
    /\ updateQueueUI(<<>>)
    /\ UNCHANGED <<filterVars, pageVars, groupByManufacturer, dragVars,
                   detailVars, currentDistributor, clientDefined, filterStatus>>
    /\ UNCHANGED <<searchVars, skuSearch, skuSearchVars>>

(***************************************************************************)
(* Drag and drop in the queue list.  The browser delivers dragstart, any    *)
(* number of dragover, possibly drop, then dragend; an element can be       *)
(* dragged only while the list is displayed.                                *)
(***************************************************************************)
QueueItemsOf(dom) == SelectSeq(dom, LAMBDA e : e.cls = "queue-item")
GroupHeadersOf(dom) == SelectSeq(dom, LAMBDA e : e.cls = "queue-mfr-group")

handleDragStart(i) ==
    /\ ~Closed /\ ~Dragging
    /\ queueList
    /\ i \in 1..Len(queueItems)
    /\ IF queueItems[i].cls = "queue-mfr-group"
       THEN draggedGroup' = queueItems[i] /\ UNCHANGED draggedItem
       ELSE draggedItem' = queueItems[i] /\ UNCHANGED draggedGroup
    /\ UNCHANGED <<filterVars, pageVars, queueVars, hostVars, detailVars, selectedProducts,
                   filterStatus>>
    /\ UNCHANGED <<searchVars, skuSearch, skuSearchVars>>

handleDragEnd ==
    /\ Dragging
    /\ draggedItem' = NoElement
    /\ draggedGroup' = NoElement
    /\ UNCHANGED <<filterVars, pageVars, queueVars, hostVars, detailVars, selectedProducts,
                   filterStatus>>
    /\ UNCHANGED <<searchVars, skuSearch, skuSearchVars>>

IndexOf(dom, el) == CHOOSE i \in 1..Len(dom) : dom[i] = el

\* getGroupElements(manufacturer): the header and the items below it, as
\* positions in the list.
RECURSIVE GroupRun(_, _)
GroupRun(dom, i) ==
    IF i > Len(dom) \/ dom[i].cls = "queue-mfr-group" THEN <<>>
    ELSE <<dom[i]>> \o GroupRun(dom, i + 1)

getGroupElements(dom, mfr) ==
    IF \E i \in 1..Len(dom) : dom[i] = GroupElement(mfr)
    THEN LET h == CHOOSE i \in 1..Len(dom) :
                      /\ dom[i] = GroupElement(mfr)
                      /\ \A j \in 1..(i - 1) : dom[j] # GroupElement(mfr)
         IN  <<dom[h]>> \o GroupRun(dom, h + 1)
    ELSE <<>>

\* dom with the elements `moved` taken out and put back before `before`
\* (insertBefore), or at the end when `before` is NoElement (appendChild).
MoveElements(dom, moved, before) ==
    LET rest == SelectSeq(dom, LAMBDA e : e \notin Range(moved))
    IN  IF before = NoElement \/ before \notin Range(rest)
        THEN rest \o moved
        ELSE LET k == IndexOf(rest, before)
             IN  SubSeq(rest, 1, k - 1) \o moved \o SubSeq(rest, k, Len(rest))

\* The elements getDragAfterGroup / getDragAfterElement can return for some
\* pointer position: any element of the class that is not being dragged, or
\* none.
DragAfterChoices(dom, cls, dragged) ==
    {e \in Range(dom) : e.cls = cls /\ e # dragged} \cup {NoElement}

handleDragOver(after) ==
    /\ ~Closed /\ Dragging
    /\ IF draggedGroup # NoElement /\ groupByManufacturer
       THEN /\ after \in DragAfterChoices(queueItems, "queue-mfr-group",
                                          draggedGroup)
            /\ queueItems' =
                   MoveElements(queueItems,
                                getGroupElements(queueItems,
                                                 draggedGroup.manufacturer),
                                after)
       ELSE IF draggedItem # NoElement
            THEN /\ after \in DragAfterChoices(queueItems, "queue-item",
                                               draggedItem)
                 /\ queueItems' = MoveElements(queueItems, <<draggedItem>>, after)
            ELSE /\ after = NoElement
                 /\ UNCHANGED queueItems
    /\ UNCHANGED <<filterVars, pageVars, queuedProducts, groupByManufacturer,
                   queueList, dragVars, hostVars, detailVars, selectedProducts, filterStatus>>
    /\ UNCHANGED <<searchVars, skuSearch, skuSearchVars>>

\* Variant of ConcatGroups: the groups are put together last header first.
RECURSIVE ConcatGroupsLastFirst(_, _, _)
ConcatGroupsLastFirst(mfrOrder, queue, mfr) ==
    IF mfrOrder = <<>> THEN <<>>
    ELSE ConcatGroupsLastFirst(Tail(mfrOrder), queue, mfr)
         \o SelectSeq(queue, LAMBDA p : GroupOf(p, mfr) = Head(mfrOrder))

\* reorderByGroups(): the queue rebuilt from the order of the headers.
RECURSIVE ConcatGroups(_, _, _)
ConcatGroups(mfrOrder, queue, mfr) ==
    IF mfrOrder = <<>> THEN <<>>
    ELSE SelectSeq(queue, LAMBDA p : GroupOf(p, mfr) = Head(mfrOrder))
         \o ConcatGroups(Tail(mfrOrder), queue, mfr)

MfrOrderOf(dom) ==
    LET headers == GroupHeadersOf(dom)
    IN  [i \in 1..Len(headers) |-> headers[i].manufacturer]

reorderByGroups(dom, queue, mfr) == ConcatGroups(MfrOrderOf(dom), queue, mfr)

\* The else branch of handleDrop: the queue rebuilt from the order of the
\* items, each looked up by part number (find: the first match).
RECURSIVE ReorderByItems(_, _)
ReorderByItems(items, queue) ==
    IF items = <<>> THEN <<>>
    ELSE LET partNumber == Head(items).partNumber
             found == SelectSeq(queue, LAMBDA p : PartNumberOf(p) = partNumber)
         IN  (IF found # <<>> THEN <<Head(found)>> ELSE <<>>)
             \o ReorderByItems(Tail(items), queue)

handleDrop ==
    /\ ~Closed /\ Dragging
    /\ queueList
    /\ queuedProducts' =
           IF groupByManufacturer /\ draggedGroup # NoElement
           THEN reorderByGroups(queueItems, queuedProducts, manufacturer)
           ELSE ReorderByItems(QueueItemsOf(queueItems), queuedProducts)
    /\ UNCHANGED <<filterVars, pageVars, groupByManufacturer, queueItems,
                   queueList, dragVars, hostVars, detailVars, selectedProducts, filterStatus>>
    /\ UNCHANGED <<searchVars, skuSearch, skuSearchVars>>

(***************************************************************************)
(* Resets.                                                                  *)
(***************************************************************************)
\* Variant of resetProducts: the ticks of the check boxes outlive the page.
resetProductsKeepingSelection ==
    /\ productsBody' = <<>>
    /\ pagination' = <<>>
    /\ productCount' = 0
    /\ selectedProducts' = selectedProducts
    /\ currentProducts' = <<>>
    /\ pricingData' = EmptyCache

resetProducts ==
    /\ productsBody' = <<>>
    /\ pagination' = <<>>
    /\ productCount' = 0
    /\ selectedProducts' = <<>>
    /\ currentProducts' = <<>>
    /\ pricingData' = EmptyCache

resetOptionalFilters ==
    /\ category' = ""
    /\ subcategory' = ""
    /\ skuType' = ""
    /\ skuKeyword' = <<>>
    /\ filterParams' = [category |-> NoParams, subcategory |-> NoParams]
    /\ categorySelect' = EmptySelect
    /\ subcategorySelect' = EmptySelect
    /\ skuSearch' = <<>>

(***************************************************************************)
(* Filters.                                                                 *)
(***************************************************************************)
\* `${manufacturer}|${category}|${subcategory}|${skuType}`
ParamsOf(mfr, cat, sub, type) == <<mfr, cat, sub, type>>

SelectOf(filterType) ==
    IF filterType = "category" THEN categorySelect ELSE subcategorySelect

\* Variant of LoadFilterStart: the parameters of the last load are not
\* looked at.
LoadFilterStartUncached(filterType, caller, mfr, cat, sub, type, select, params) ==
    LET currentParams == ParamsOf(mfr, cat, sub, type)
    IN  IF loadingFilters[filterType]
        THEN [fired |-> FALSE, loading |-> loadingFilters, select |-> select,
              fetches |-> filterFetches]
        ELSE [fired |-> TRUE,
              loading |-> [loadingFilters EXCEPT ![filterType] = TRUE],
              select |-> [first |-> "Loading...", items |-> {}, value |-> ""],
              fetches |-> Append(filterFetches,
                  [filterType |-> filterType, currentParams |-> currentParams,
                   currentValue |-> select.value, caller |-> caller])]

\* Variant of LoadFilterStart: the loading flag is not looked at.
LoadFilterStartUnguarded(filterType, caller, mfr, cat, sub, type, select, params) ==
    LET currentParams == ParamsOf(mfr, cat, sub, type)
    IN  IF params[filterType] = currentParams
        THEN [fired |-> FALSE, loading |-> loadingFilters, select |-> select,
              fetches |-> filterFetches]
        ELSE [fired |-> TRUE,
              loading |-> [loadingFilters EXCEPT ![filterType] = TRUE],
              select |-> [first |-> "Loading...", items |-> {}, value |-> ""],
              fetches |-> Append(filterFetches,
                  [filterType |-> filterType, currentParams |-> currentParams,
                   currentValue |-> select.value, caller |-> caller])]

\* loadFilterOptions(filterType) up to its fetch, called by `caller` when the
\* filter values are (mfr, cat, sub, type) and the select box is `select`.
\* Yields the loading flags, the select box and the requests afterwards.
LoadFilterStart(filterType, caller, mfr, cat, sub, type, select, params) ==
    LET currentParams == ParamsOf(mfr, cat, sub, type)
    IN  IF loadingFilters[filterType] \/ params[filterType] = currentParams
        THEN [fired |-> FALSE, loading |-> loadingFilters, select |-> select,
              fetches |-> filterFetches]
        ELSE [fired |-> TRUE,
              loading |-> [loadingFilters EXCEPT ![filterType] = TRUE],
              select |-> [first |-> "Loading...", items |-> {}, value |-> ""],
              fetches |-> Append(filterFetches,
                  [filterType |-> filterType, currentParams |-> currentParams,
                   currentValue |-> select.value, caller |-> caller])]

\* The change event of #manufacturerSelect, the user having picked `value`.
onManufacturerSelect(value) ==
    /\ UserCanAct
    /\ value \in Manufacturers \cup {""}
    /\ value # manufacturer
    /\ manufacturer' = value
    /\ resetProducts
    /\ category' = ""
    /\ subcategory' = ""
    /\ skuType' = ""
    /\ skuKeyword' = <<>>
    /\ filterParams' = [category |-> NoParams, subcategory |-> NoParams]
    /\ subcategorySelect' = EmptySelect
    /\ IF value = ""
       THEN /\ categorySelect' = EmptySelect
            /\ UNCHANGED <<loadingFilters, filterFetches, filterStatus>>
       ELSE LET started == LoadFilterStart("category", "onManufacturerSelect",
                                           value, "", "", "", EmptySelect,
                                           [category |-> NoParams,
                                            subcategory |-> NoParams])
            IN  /\ started.fired => MayFetch
                /\ loadingFilters' = started.loading
                /\ categorySelect' = started.select
                /\ filterFetches' = started.fetches
                /\ filterStatus' =
                       IF started.fired
                       THEN Status("loading", 0)
                       ELSE Status("success", 0)
    /\ UNCHANGED <<currentPage, totalRecords, totalPages, productFetches,
                   queueVars, dragVars, hostVars, detailVars>>
    /\ skuSearch' = <<>>
    /\ UNCHANGED <<searchVars, skuSearchVars>>

\* The change event of a filter select box, the user having picked `value`.
onFilterChange(filterType, value) ==
    /\ UserCanAct
    /\ \/ /\ filterType = "category"
          /\ value \in categorySelect.items \cup {""}
          /\ value # categorySelect.value
          /\ category' = value
          /\ UNCHANGED <<subcategory, skuType>>
          /\ LET cleared == [filterParams EXCEPT !.subcategory = NoParams]
                 started == LoadFilterStart("subcategory", "onFilterChange",
                                manufacturer, value, subcategory, skuType,
                                subcategorySelect, cleared)
             IN  IF value # ""
                 THEN /\ started.fired => MayFetch
                      /\ loadingFilters' = started.loading
                      /\ subcategorySelect' = started.select
                      /\ filterFetches' = started.fetches
                      /\ filterParams' = cleared
                 ELSE /\ filterParams' = cleared
                      /\ UNCHANGED <<loadingFilters, subcategorySelect,
                                     filterFetches>>
          /\ categorySelect' = [categorySelect EXCEPT !.value = value]
       \/ /\ filterType = "subcategory"
          /\ value \in subcategorySelect.items \cup {""}
          /\ value # subcategorySelect.value
          /\ subcategory' = value
          /\ subcategorySelect' = [subcategorySelect EXCEPT !.value = value]
          /\ filterParams' = [filterParams EXCEPT !.category = NoParams]
          /\ UNCHANGED <<category, skuType, categorySelect, loadingFilters,
                         filterFetches>>
       \/ /\ filterType = "skuType"
          /\ value \in SkuTypes \cup {""}
          /\ value # skuType
          /\ skuType' = value
          /\ filterParams' = [category |-> NoParams, subcategory |-> NoParams]
          /\ UNCHANGED <<category, subcategory, categorySelect,
                         subcategorySelect, loadingFilters, filterFetches>>
    /\ resetProducts
    /\ UNCHANGED <<manufacturer, skuKeyword, currentPage, totalRecords,
                   totalPages, productFetches, queueVars, dragVars, hostVars, detailVars,
                   filterStatus>>
    /\ UNCHANGED <<searchVars, skuSearch, skuSearchVars>>

\* loadFilterOptions(filterType) called on its own.
loadFilterOptions(filterType) ==
    /\ UserCanAct
    /\ filterType \in {"category", "subcategory"}
    /\ LET started == LoadFilterStart(filterType, "", manufacturer, category,
                                      subcategory, skuType, SelectOf(filterType),
                                      filterParams)
       IN  /\ started.fired => Len(filterFetches) < MaxFilterFetches
           /\ loadingFilters' = started.loading
           /\ filterFetches' = started.fetches
           /\ IF filterType = "category"
              THEN categorySelect' = started.select /\ UNCHANGED subcategorySelect
              ELSE subcategorySelect' = started.select /\ UNCHANGED categorySelect
    /\ UNCHANGED <<manufacturer, category, subcategory, skuType, skuKeyword,
                   filterParams, pageVars, queueVars, dragVars, hostVars, detailVars,
                   selectedProducts, filterStatus>>
    /\ UNCHANGED <<searchVars, skuSearch, skuSearchVars>>

\* The select box once the option list `items` has been put in it.
FilledSelect(items, currentValue) ==
    [first |-> "-- Any --", items |-> items,
     value |-> IF currentValue # "" /\ currentValue \in items
               THEN currentValue ELSE ""]

ErrorSelect == [first |-> "-- Error --", items |-> {}, value |-> ""]

\* Variant of FilterSettled: a failed load caches its parameters too.
FilterSettledCachingFailure(k, ok, items) ==
    /\ ~Closed
    /\ k \in 1..Len(filterFetches)
    /\ filterFetches' = RemoveAt(filterFetches, k)
    /\ LET f == filterFetches[k] IN
       /\ items \subseteq (IF f.filterType = "category" THEN CatalogCategories
                           ELSE CatalogSubcategories)
       /\ ok \/ items = {}
       /\ LET select == IF ok THEN FilledSelect(items, f.currentValue)
                        ELSE ErrorSelect
          IN  IF f.filterType = "category"
              THEN categorySelect' = select /\ UNCHANGED subcategorySelect
              ELSE subcategorySelect' = select /\ UNCHANGED categorySelect
       /\ filterParams' = [filterParams EXCEPT ![f.filterType] = f.currentParams]
       /\ loadingFilters' = [loadingFilters EXCEPT ![f.filterType] = FALSE]
       /\ filterStatus' = IF f.caller = "onManufacturerSelect"
                          THEN Status("success", 0)
                          ELSE filterStatus
    /\ UNCHANGED <<manufacturer, category, subcategory, skuType, skuKeyword,
                   pageVars, queueVars, dragVars, hostVars, detailVars, selectedProducts>>
    /\ UNCHANGED <<searchVars, skuSearch, skuSearchVars>>

\* Variant of FilterSettled: a failed load leaves its loading flag up.
FilterSettledKeepingFlag(k, ok, items) ==
    /\ ~Closed
    /\ k \in 1..Len(filterFetches)
    /\ filterFetches' = RemoveAt(filterFetches, k)
    /\ LET f == filterFetches[k] IN
       /\ items \subseteq (IF f.filterType = "category" THEN CatalogCategories
                           ELSE CatalogSubcategories)
       /\ ok \/ items = {}
       /\ LET select == IF ok THEN FilledSelect(items, f.currentValue)
                        ELSE ErrorSelect
          IN  IF f.filterType = "category"
              THEN categorySelect' = select /\ UNCHANGED subcategorySelect
              ELSE subcategorySelect' = select /\ UNCHANGED categorySelect
       /\ filterParams' = IF ok
                          THEN [filterParams EXCEPT ![f.filterType] = f.currentParams]
                          ELSE filterParams
       /\ loadingFilters' = [loadingFilters EXCEPT ![f.filterType] = ~ok]
       /\ filterStatus' = IF f.caller = "onManufacturerSelect"
                          THEN Status("success", 0)
                          ELSE filterStatus
    /\ UNCHANGED <<manufacturer, category, subcategory, skuType, skuKeyword,
                   pageVars, queueVars, dragVars, hostVars, detailVars, selectedProducts>>
    /\ UNCHANGED <<searchVars, skuSearch, skuSearchVars>>

\* The rest of loadFilterOptions once its fetch k settles: `ok` with the list
\* `items`, or with a failure.
FilterSettled(k, ok, items) ==
    /\ ~Closed
    /\ k \in 1..Len(filterFetches)
    /\ filterFetches' = RemoveAt(filterFetches, k)
    /\ LET f == filterFetches[k] IN
       /\ items \subseteq (IF f.filterType = "category" THEN CatalogCategories
                           ELSE CatalogSubcategories)
       /\ ok \/ items = {}
       /\ LET select == IF ok THEN FilledSelect(items, f.currentValue)
                        ELSE ErrorSelect
          IN  IF f.filterType = "category"
              THEN categorySelect' = select /\ UNCHANGED subcategorySelect
              ELSE subcategorySelect' = select /\ UNCHANGED categorySelect
       /\ filterParams' = IF ok
                          THEN [filterParams EXCEPT ![f.filterType] = f.currentParams]
                          ELSE filterParams
       /\ loadingFilters' = [loadingFilters EXCEPT ![f.filterType] = FALSE]
       /\ filterStatus' = IF f.caller = "onManufacturerSelect"
                          THEN Status("success", 0)
                          ELSE filterStatus
    /\ UNCHANGED <<manufacturer, category, subcategory, skuType, skuKeyword,
                   pageVars, queueVars, dragVars, hostVars, detailVars, selectedProducts>>
    /\ UNCHANGED <<searchVars, skuSearch, skuSearchVars>>

\* value.trim()
RECURSIVE TrimLeft(_)
TrimLeft(chars) ==
    IF chars # <<>> /\ Head(chars) = " " THEN TrimLeft(Tail(chars)) ELSE chars

RECURSIVE TrimRight(_)
TrimRight(chars) ==
    IF chars # <<>> /\ chars[Len(chars)] = " "
    THEN TrimRight(SubSeq(chars, 1, Len(chars) - 1)) ELSE chars

Trim(chars) == TrimRight(TrimLeft(chars))

\* Variant of skuSearchInput: a new keyword starts the quote over.
skuSearchInputStartingOver(value) ==
    /\ UserCanAct
    /\ value \in KeywordInputs
    /\ skuKeyword' = Trim(value)
    /\ queuedProducts' = <<>>
    /\ updateQueueUI(<<>>)
    /\ UNCHANGED <<manufacturer, category, subcategory, skuType, loadingFilters,
                   filterParams, categorySelect, subcategorySelect,
                   filterFetches, pageVars, groupByManufacturer, dragVars,
                   hostVars, detailVars, selectedProducts, filterStatus>>
    /\ skuSearch' = value
    /\ UNCHANGED <<searchVars, skuSearchVars>>

\* The input event of #skuSearch, the box now holding `value`.
skuSearchInput(value) ==
    /\ UserCanAct
    /\ value \in KeywordInputs
    /\ skuKeyword' = Trim(value)
    /\ UNCHANGED <<manufacturer, category, subcategory, skuType, loadingFilters,
                   filterParams, categorySelect, subcategorySelect,
                   filterFetches, pageVars, queueVars, dragVars, hostVars, detailVars,
                   selectedProducts, filterStatus>>
    /\ skuSearch' = value
    /\ UNCHANGED <<searchVars, skuSearchVars>>

(***************************************************************************)
(* Manufacturer search.                                                     *)
(***************************************************************************)
\* clearTimeout(id) where id is the timeout set last, `pending` timeouts
\* being pending: timeouts of one delay expire in the order they were set,
\* so the one set last is pending when any is, and is then cancelled.
clearTimeout(pending) == IF pending > 0 THEN pending - 1 ELSE 0

\* Variant of debounceManufacturerSearch: the timeout set before is left to
\* expire.
debounceManufacturerSearchWithoutClear(value) ==
    /\ UserCanAct
    /\ value \in SearchInputs
    /\ value # manufacturerSearch
    /\ manufacturerSearch' = value
    /\ searchTimeout' = searchTimeout + 1
    /\ UNCHANGED <<filterVars, pageVars, queueVars, dragVars, hostVars,
                   detailVars, manufacturerSelect, searchFetches, skuSearch,
                   skuSearchVars, selectedProducts, filterStatus>>

\* The input event of #manufacturerSearch, the box now holding `value`:
\* debounceManufacturerSearch().
debounceManufacturerSearch(value) ==
    /\ UserCanAct
    /\ value \in SearchInputs
    /\ value # manufacturerSearch
    /\ manufacturerSearch' = value
    /\ searchTimeout' = clearTimeout(searchTimeout) + 1
    /\ UNCHANGED <<filterVars, pageVars, queueVars, dragVars, hostVars,
                   detailVars, manufacturerSelect, searchFetches, skuSearch,
                   skuSearchVars, selectedProducts, filterStatus>>

\* The timeout expires: searchManufacturers() up to its fetch.
searchManufacturers ==
    /\ ~Closed
    /\ searchTimeout > 0
    /\ searchTimeout' = searchTimeout - 1
    /\ LET searchTerm == Trim(manufacturerSearch)
       IN  IF Len(searchTerm) < 2
           THEN /\ manufacturerSelect' =
                       [first |-> "Type 2+ characters to search...",
                        items |-> {}]
                /\ UNCHANGED <<searchFetches, filterStatus>>
           ELSE /\ MaySearch
                /\ filterStatus' = Status("loading", 0)
                /\ searchFetches' = Append(searchFetches, [search |-> searchTerm])
                /\ UNCHANGED manufacturerSelect
    /\ UNCHANGED <<filterVars, pageVars, queueVars, dragVars, hostVars,
                   detailVars, manufacturerSearch, skuSearch, skuSearchVars,
                   selectedProducts>>

\* The rest of searchManufacturers once fetch k has answered with the names
\* `manufacturers`.
ManufacturersLoaded(k, manufacturers) ==
    /\ ~Closed
    /\ k \in 1..Len(searchFetches)
    /\ manufacturers \subseteq Manufacturers
    /\ searchFetches' = RemoveAt(searchFetches, k)
    /\ IF manufacturers # {}
       THEN /\ manufacturerSelect' = [first |-> "-- Select a manufacturer --",
                                      items |-> manufacturers]
            /\ filterStatus' = Status("success", Cardinality(manufacturers))
       ELSE /\ manufacturerSelect' = [first |-> "No manufacturers found",
                                      items |-> {}]
            /\ filterStatus' = Status("info", 0)
    /\ UNCHANGED <<filterVars, pageVars, queueVars, dragVars, hostVars,
                   detailVars, manufacturerSearch, searchTimeout, skuSearch,
                   skuSearchVars, selectedProducts>>

\* The catch of searchManufacturers: fetch k failed.
ManufacturersFailed(k) ==
    /\ ~Closed
    /\ k \in 1..Len(searchFetches)
    /\ searchFetches' = RemoveAt(searchFetches, k)
    /\ filterStatus' = Status("error", 0)
    /\ UNCHANGED <<filterVars, pageVars, queueVars, dragVars, hostVars,
                   detailVars, manufacturerSearch, manufacturerSelect,
                   searchTimeout, skuSearch, skuSearchVars, selectedProducts>>

(***************************************************************************)
(* Type-ahead search of SKUs, as the revision before the queue has it: the  *)
(* input event of the keyword box debounces searchSkus().                   *)
(***************************************************************************)
debounceSkuSearch(value) ==
    /\ UserCanAct
    /\ value \in KeywordInputs
    /\ value # skuSearch
    /\ skuSearch' = value
    /\ skuSearchTimeout' = clearTimeout(skuSearchTimeout) + 1
    /\ UNCHANGED <<filterVars, pageVars, queueVars, dragVars, hostVars,
                   detailVars, searchVars, skuSelect, skuFetches,
                   selectedProducts, filterStatus>>

\* The timeout expires: searchSkus() up to its fetch.
searchSkus ==
    /\ ~Closed
    /\ skuSearchTimeout > 0
    /\ skuSearchTimeout' = skuSearchTimeout - 1
    /\ LET searchTerm == Trim(skuSearch)
       IN  /\ skuKeyword' = searchTerm
           /\ IF Len(searchTerm) < 2
              THEN /\ skuSelect' = [display |-> FALSE,
                                    first |-> "Type 2+ chars to search...",
                                    items |-> <<>>]
                   /\ UNCHANGED <<skuFetches, filterStatus>>
              ELSE IF manufacturer = ""
              THEN /\ filterStatus' = Status("error", 0)
                   /\ UNCHANGED <<skuSelect, skuFetches>>
              ELSE /\ MaySearch
                   /\ filterStatus' = Status("loading", 0)
                   /\ skuFetches' = Append(skuFetches,
                          [keyword |-> searchTerm, vendor |-> manufacturer,
                           category |-> category, subCategory |-> subcategory,
                           type |-> skuType])
                   /\ UNCHANGED skuSelect
    /\ UNCHANGED <<manufacturer, category, subcategory, skuType, loadingFilters,
                   filterParams, categorySelect, subcategorySelect,
                   filterFetches, pageVars, queueVars, dragVars, hostVars,
                   detailVars, searchVars, skuSearch, selectedProducts>>

\* The rest of searchSkus once fetch k has answered with `products`.
SkusLoaded(k, products) ==
    /\ ~Closed
    /\ k \in 1..Len(skuFetches)
    /\ skuFetches' = RemoveAt(skuFetches, k)
    /\ IF Len(products) > 0
       THEN /\ skuSelect' = [display |-> TRUE,
                             first |-> "-- Select a product --",
                             items |-> products]
            /\ filterStatus' = Status("success", Len(products))
       ELSE /\ skuSelect' = [display |-> TRUE, first |-> "No products found",
                             items |-> <<>>]
            /\ filterStatus' = Status("info", 0)
    /\ UNCHANGED <<filterVars, pageVars, queueVars, dragVars, hostVars,
                   detailVars, searchVars, skuSearch, skuSearchTimeout,
                   selectedProducts>>

\* The catch of searchSkus: fetch k failed.
SkusFailed(k) ==
    /\ ~Closed
    /\ k \in 1..Len(skuFetches)
    /\ skuFetches' = RemoveAt(skuFetches, k)
    /\ filterStatus' = Status("error", 0)
    /\ UNCHANGED <<filterVars, pageVars, queueVars, dragVars, hostVars,
                   detailVars, searchVars, skuSearch, skuSelect,
                   skuSearchTimeout, selectedProducts>>

(***************************************************************************)
(* Product pages.                                                           *)
(***************************************************************************)
\* The pages the user can ask for: the Load Products button asks for page 1,
\* the pager's Prev and Next for the pages next to the one it shows.
OfferedPages ==
    {1} \cup
    (IF pagination = <<>> THEN {}
     ELSE (IF pagination[1].page # 1 THEN {pagination[1].page - 1} ELSE {})
          \cup (IF pagination[1].page < pagination[1].totalPages
                THEN {pagination[1].page + 1} ELSE {}))

\* Variant of loadProducts: the page is asked for whatever the manufacturer.
loadProductsUnchecked(page) ==
    /\ UserCanAct
    /\ MayFetch
    /\ currentPage' = page
    /\ filterStatus' = Status("loading", 0)
    /\ productFetches' = Append(productFetches,
           [page |-> page, vendor |-> manufacturer, category |-> category,
            subCategory |-> subcategory, type |-> skuType,
            keyword |-> IF Len(skuKeyword) >= 2 THEN skuKeyword ELSE <<>>])
    /\ UNCHANGED <<filterVars, totalRecords, totalPages, currentProducts,
                   pricingData, productsBody, pagination, productCount,
                   queueVars, dragVars,
                   hostVars, detailVars, selectedProducts>>
    /\ UNCHANGED <<searchVars, skuSearch, skuSearchVars>>

\* loadProducts(page) up to its fetch.
loadProducts(page) ==
    /\ UserCanAct
    /\ IF manufacturer = ""
       THEN /\ filterStatus' = Status("error", 0)
            /\ UNCHANGED <<currentPage, productFetches>>
       ELSE /\ MayFetch
            /\ currentPage' = page
            /\ filterStatus' = Status("loading", 0)
            /\ productFetches' = Append(productFetches,
                   [page |-> page, vendor |-> manufacturer, category |-> category,
                    subCategory |-> subcategory, type |-> skuType,
                    keyword |-> IF Len(skuKeyword) >= 2 THEN skuKeyword ELSE <<>>])
    /\ UNCHANGED <<filterVars, totalRecords, totalPages, currentProducts,
                   pricingData, productsBody, pagination, productCount,
                   queueVars, dragVars,
                   hostVars, detailVars, selectedProducts>>
    /\ UNCHANGED <<searchVars, skuSearch, skuSearchVars>>

\* The pagination object of a response for `page` holding `n` products, when
\* the service reports `pages` pages in all.
PaginationOf(page, pages, n) ==
    <<[page |-> page, totalPages |-> pages,
       totalRecords |-> PAGE_SIZE * (pages - 1) + n]>>

\* What the service may answer to request f when its pages hold one of
\* `contents`: the products, and the pagination object.
ProductResponses(f, contents) ==
    {[products |-> products,
      pagination |-> PaginationOf(f.page, pages, Len(products))] :
        products \in contents, pages \in 1..MaxPage}

\* The rest of loadProducts once fetch i has answered with `data`.
ProductsLoaded(i, data) ==
    /\ ~Closed
    /\ i \in 1..Len(productFetches)
    /\ productFetches' = RemoveAt(productFetches, i)
    /\ IF Len(data.products) > 0
       THEN /\ totalRecords' = IF data.pagination # <<>>
                               THEN data.pagination[1].totalRecords
                               ELSE Len(data.products)
            /\ totalPages' = IF data.pagination # <<>>
                             THEN data.pagination[1].totalPages ELSE 1
            /\ displayProductsWithPricing(data.products, data.pagination,
                                          queuedProducts, totalRecords')
            /\ filterStatus' = Status("", 0)
       ELSE /\ productsBody' = <<>>
            /\ pagination' = <<>>
            /\ productCount' = 0
            /\ filterStatus' = Status("info", 0)
            /\ UNCHANGED <<totalRecords, totalPages, currentProducts, pricingData>>
    /\ UNCHANGED <<filterVars, currentPage, queueVars, dragVars, hostVars, detailVars,
                   selectedProducts>>
    /\ UNCHANGED <<searchVars, skuSearch, skuSearchVars>>

\* Variant of the catch of loadProducts: the failure also drops the ticks.
ProductsFailedDroppingSelection(i) ==
    /\ ~Closed
    /\ i \in 1..Len(productFetches)
    /\ productFetches' = RemoveAt(productFetches, i)
    /\ filterStatus' = Status("error", 0)
    /\ selectedProducts' = <<>>
    /\ UNCHANGED <<filterVars, currentPage, totalRecords, totalPages,
                   currentProducts, pricingData, productsBody, pagination,
                   productCount,
                   queueVars, dragVars, hostVars, detailVars>>
    /\ UNCHANGED <<searchVars, skuSearch, skuSearchVars>>

\* The catch of loadProducts: fetch i failed.
ProductsFailed(i) ==
    /\ ~Closed
    /\ i \in 1..Len(productFetches)
    /\ productFetches' = RemoveAt(productFetches, i)
    /\ filterStatus' = Status("error", 0)
    /\ UNCHANGED <<filterVars, currentPage, totalRecords, totalPages,
                   currentProducts, pricingData, productsBody, pagination,
                   productCount,
                   queueVars, dragVars, hostVars, detailVars, selectedProducts>>
    /\ UNCHANGED <<searchVars, skuSearch, skuSearchVars>>

(***************************************************************************)
(* The product details panel.                                               *)
(***************************************************************************)
\* What the panel is filled with: { ...product, pricingData, productDetails }.
FullProductData(product, pricing, productDetails) ==
    <<[product |-> product, pricingData |-> pricing,
       productDetails |-> productDetails]>>

\* The calls under way once one more call is made: none of them is the
\* latest call any more.
Superseded(calls) ==
    [k \in DOMAIN calls |-> [calls[k] EXCEPT !.latest = FALSE]]

\* The info button of row productIndex: showProductDetails(productIndex) up
\* to its await.  A product without ingram part number is shown at once.
showProductDetails(productIndex) ==
    /\ UserCanAct
    /\ productIndex \in 1..Len(productsBody)
    /\ IF productIndex \notin 1..Len(currentProducts)
       THEN UNCHANGED detailVars
       ELSE LET product == currentProducts[productIndex]
                ingramPn == product.ingramPartNumber
                cached == CacheGet(pricingData, ingramPn)
            IN  IF ingramPn # NoPart
                THEN /\ MayFetch
                     /\ productDetailsSection' =
                            [productDetailsSection EXCEPT !.display = TRUE]
                     /\ detailsFetches' = Append(Superseded(detailsFetches),
                            [product |-> product, pricingData |-> cached,
                             pricingPending |-> (cached = NoPricing),
                             productDetails |-> <<>>, detailsPending |-> TRUE,
                             latest |-> TRUE])
                ELSE /\ productDetailsSection' =
                            [display |-> TRUE,
                             shown |-> FullProductData(product, cached, <<>>)]
                     /\ detailsFetches' = Superseded(detailsFetches)
    /\ UNCHANGED <<filterVars, pageVars, queueVars, dragVars, hostVars,
                   selectedProducts, filterStatus>>
    /\ UNCHANGED <<searchVars, skuSearch, skuSearchVars>>

\* Variant of DetailsJoin: the panel is filled as soon as one fetch has
\* settled.
DetailsJoinAtFirst(k, call) ==
    /\ detailsFetches' = IF call.pricingPending \/ call.detailsPending
                         THEN [detailsFetches EXCEPT ![k] = call]
                         ELSE RemoveAt(detailsFetches, k)
    /\ productDetailsSection' =
           [productDetailsSection EXCEPT
               !.shown = FullProductData(call.product, call.pricingData,
                                         call.productDetails)]

\* The call k once one more of its fetches has settled: the rest of
\* showProductDetails when none is pending any more.
DetailsJoin(k, call) ==
    IF call.pricingPending \/ call.detailsPending
    THEN /\ detailsFetches' = [detailsFetches EXCEPT ![k] = call]
         /\ UNCHANGED productDetailsSection
    ELSE /\ detailsFetches' = RemoveAt(detailsFetches, k)
         /\ productDetailsSection' =
                [productDetailsSection EXCEPT
                    !.shown = FullProductData(call.product, call.pricingData,
                                              call.productDetails)]

\* The pricing fetch of call k settles with `data`, NoPricing for an empty
\* answer or a failure.
DetailsPricingSettled(k, data) ==
    /\ ~Closed
    /\ k \in 1..Len(detailsFetches)
    /\ detailsFetches[k].pricingPending
    /\ LET call == detailsFetches[k]
           ingramPn == call.product.ingramPartNumber
       IN  /\ pricingData' = IF data # NoPricing
                             THEN CachePut(pricingData, ingramPn, data)
                             ELSE pricingData
           /\ DetailsJoin(k, [call EXCEPT
                                 !.pricingPending = FALSE,
                                 !.pricingData = IF data # NoPricing THEN data
                                                 ELSE call.pricingData])
    /\ UNCHANGED <<filterVars, currentPage, totalRecords, totalPages,
                   currentProducts, productsBody, pagination, productCount,
                   productFetches,
                   queueVars, dragVars, hostVars, selectedProducts,
                   filterStatus>>
    /\ UNCHANGED <<searchVars, skuSearch, skuSearchVars>>

\* The product details fetch of call k settles with `data`, <<>> for an
\* error answer or a failure.
DetailsSettled(k, data) ==
    /\ ~Closed
    /\ k \in 1..Len(detailsFetches)
    /\ detailsFetches[k].detailsPending
    /\ DetailsJoin(k, [detailsFetches[k] EXCEPT !.detailsPending = FALSE,
                                                !.productDetails = data])
    /\ UNCHANGED <<filterVars, pageVars, queueVars, dragVars, hostVars,
                   selectedProducts, filterStatus>>
    /\ UNCHANGED <<searchVars, skuSearch, skuSearchVars>>

hideProductDetails ==
    /\ UserCanAct
    /\ productDetailsSection.display
    /\ productDetailsSection' = [productDetailsSection EXCEPT !.display = FALSE]
    /\ UNCHANGED <<filterVars, pageVars, queueVars, dragVars, hostVars,
                   detailsFetches, selectedProducts, filterStatus>>
    /\ UNCHANGED <<searchVars, skuSearch, skuSearchVars>>

(***************************************************************************)
(* The flags of the details panel.  A JavaScript value is written as a      *)
(* string: "undefined", the booleans "true" and "false", and the strings    *)
(* 'true', 'false', 'yes', 'no' with their quotes.                          *)
(***************************************************************************)
\* a || b
Truthy(v) == v \notin {"undefined", "false"}
Or(a, b) == IF Truthy(a) THEN a ELSE b

\* a === b
StrictEquals(a, b) == IF a = b THEN "true" ELSE "false"

\* product.name, undefined when the product has no such property.
Property(r, name) == IF name \in DOMAIN r THEN r[name] ELSE "undefined"
\* data?.name for the pricing and the product details: <<>> is a missing
\* object.
OptionalProperty(data, name) ==
    IF data # <<>> /\ name \in DOMAIN data[1] THEN data[1][name]
    ELSE "undefined"

yesNo(val) ==
    IF val = "true" THEN "Yes"
    ELSE IF val = "false" THEN "No"
    ELSE IF val \in {"'true'", "'yes'"} THEN "Yes"
    ELSE IF val \in {"'false'", "'no'"} THEN "No"
    ELSE "-"

\* flagsFields: the value shown under each label.
flagsFields(product, pricing, productDetails) ==
    LET Indicator(name) ==
            IF productDetails # <<>> /\ "indicators" \in DOMAIN productDetails[1]
            THEN Property(productDetails[1].indicators, name)
            ELSE "undefined"
        type == Property(product, "type")
        isDiscontinued == Or(Property(product, "discontinued"),
                             Indicator("isDiscontinuedProduct"))
    IN  [Digital |-> yesNo(Or(Or(Indicator("isDigitalType"),
                                 StrictEquals(type, "IM::Digital")),
                              StrictEquals(type, "IM::digital"))),
         Bundle |-> yesNo(Or(Indicator("hasBundle"),
                             OptionalProperty(pricing, "bundlePartIndicator"))),
         Licensed |-> yesNo(Indicator("isLicenseProduct")),
         ServiceSku |-> yesNo(Indicator("isServiceSku")),
         DirectShip |-> yesNo(Or(Property(product, "directShip"),
                                 Indicator("isDirectship"))),
         New |-> yesNo(Or(Property(product, "newProduct"),
                          Indicator("isNewProduct"))),
         Discontinued |-> IF isDiscontinued \in {"true", "'true'"}
                          THEN "Yes" ELSE "No"]

\* #flagsGrid: the flags of what the panel was filled with last.
flagsGrid ==
    IF productDetailsSection.shown = <<>> THEN <<>>
    ELSE LET full == productDetailsSection.shown[1]
         IN  <<flagsFields(full.product, full.pricingData,
                           full.productDetails)>>

\* What the service answers to the fetches of the details panel.
PricingAnswers == {NoPricing, <<30>>}
DetailsAnswers == {<<>>, <<"details">>}

(***************************************************************************)
(* Distributor tabs.                                                        *)
(***************************************************************************)
selectDistributor(distributor) ==
    /\ UserCanAct
    /\ distributor \in DOMAIN DISTRIBUTORS
    /\ IF DISTRIBUTORS[distributor].disabled
       THEN /\ filterStatus' = Status("info", 0)
            /\ UNCHANGED <<filterVars, pageVars, currentDistributor,
                           selectedProducts, manufacturerSearch,
                           manufacturerSelect, skuSearch>>
       ELSE /\ currentDistributor' = distributor
            \* resetFilters()
            /\ manufacturer' = ""
            /\ currentPage' = 1
            /\ totalRecords' = 0
            /\ totalPages' = 1
            /\ manufacturerSearch' = <<>>
            /\ manufacturerSelect' = NoManufacturers
            /\ resetOptionalFilters
            /\ resetProducts
            /\ filterStatus' = Status("info", 0)
            /\ UNCHANGED <<loadingFilters, filterFetches, productFetches>>
    /\ UNCHANGED <<queueVars, dragVars, detailVars, clientDefined,
                   hostReceived, searchTimeout, searchFetches, skuSearchVars>>

(***************************************************************************)
(* The environment: what the user picks and what the services answer.       *)
(***************************************************************************)
\* The option list the service answers request f with.
OptionsFor(f) ==
    IF f.filterType = "category" THEN Categories ELSE Subcategories

\* A filter request settles: with its option list, or with a failure.
FilterAnswered ==
    \E k \in DOMAIN filterFetches, ok \in BOOLEAN :
        FilterSettled(k, ok, IF ok THEN OptionsFor(filterFetches[k]) ELSE {})

\* A page request is answered with one of `contents`.
PageAnswered(contents) ==
    \E i \in DOMAIN productFetches :
        \E data \in ProductResponses(productFetches[i], contents) :
            ProductsLoaded(i, data)

\* The user picks a manufacturer from `names`, or clears the box.
ManufacturerPicked(names) ==
    \E value \in names \cup {""} : onManufacturerSelect(value)

\* The user asks for a page, ticks check boxes, commits the selection.
Selecting ==
    \/ \E page \in OfferedPages : loadProducts(page)
    \/ \E i \in DOMAIN productsBody, isChecked \in BOOLEAN :
          toggleProduct(i, isChecked)
    \/ \E selectAllChecked \in BOOLEAN : toggleSelectAll(selectAllChecked)
    \/ addSelectedToQueue

\* The drag events of the queue list.
DragAndDrop ==
    \/ \E i \in DOMAIN queueItems : handleDragStart(i)
    \/ \E after \in Range(queueItems) \cup {NoElement} : handleDragOver(after)
    \/ handleDrop
    \/ handleDragEnd

(***************************************************************************)
(* Spec: a quoting session.  The user picks the manufacturer, loads pages,  *)
(* selects, commits to the queue, edits and reorders the queue, and submits *)
(* or cancels.  The catalog holds ProdA and ProdB.                          *)
(***************************************************************************)
SessionPages == {<<>>, <<ProdA, ProdB>>, <<ProdB>>}

Next ==
    \/ ManufacturerPicked({"Acme"})
    \/ FilterAnswered
    \/ Selecting
    \/ PageAnswered(SessionPages)
    \/ \E i \in DOMAIN productFetches : ProductsFailed(i)
    \/ \E i \in DOMAIN queueItems : removeFromQueue(i)
    \/ clearQueue
    \/ toggleGroupByManufacturer
    \/ DragAndDrop
    \/ submitQueue
    \/ cancelSelection

Spec == Init /\ [][Next]_vars

(***************************************************************************)
(* SpecBrowse: browsing.  Every filter, the keyword box, the distributor    *)
(* tabs, the pages and the details panel, with commits filling the queue.   *)
(* The catalog holds ProdC; the widget runs inside the host.                *)
(***************************************************************************)
BrowsePages == {<<>>, <<ProdC>>}

Browsing ==
    \/ ManufacturerPicked({"Acme"})
    \/ \E filterType \in {"category", "subcategory", "skuType"},
          value \in Categories \cup Subcategories \cup SkuTypes \cup {""} :
          onFilterChange(filterType, value)
    \/ FilterAnswered
    \/ \E value \in {<<>>, <<"k", "w">>} : skuSearchInput(value)
    \/ \E distributor \in DOMAIN DISTRIBUTORS : selectDistributor(distributor)
    \/ \E page \in OfferedPages : loadProducts(page)
    \/ PageAnswered(BrowsePages)
    \/ \E i \in DOMAIN productFetches : ProductsFailed(i)
    \/ \E i \in DOMAIN productsBody, isChecked \in BOOLEAN :
          toggleProduct(i, isChecked)
    \/ \E selectAllChecked \in BOOLEAN : toggleSelectAll(selectAllChecked)
    \/ \E i \in DOMAIN productsBody : showProductDetails(i)
    \/ \E k \in DOMAIN detailsFetches : DetailsPricingSettled(k, <<30>>)
    \/ \E k \in DOMAIN detailsFetches : DetailsSettled(k, <<"details">>)
    \/ hideProductDetails

NextBrowse == Browsing \/ addSelectedToQueue

SpecBrowse == InitInHost /\ [][NextBrowse]_vars

(***************************************************************************)
(* SpecDrag: reordering a queue of the three products of the catalog, with  *)
(* and without manufacturer grouping, while the manufacturer changes.       *)
(***************************************************************************)
NextDrag ==
    \/ ManufacturerPicked({"Acme"})
    \/ \E k \in DOMAIN filterFetches :
          FilterSettled(k, TRUE, OptionsFor(filterFetches[k]))
    \/ loadProducts(1)
    \/ \E i \in DOMAIN productFetches :
          ProductsLoaded(i, [products |-> <<ProdC, ProdA, ProdB>>,
                             pagination |-> PaginationOf(1, 1, 3)])
    \/ \E i \in DOMAIN productsBody, isChecked \in BOOLEAN :
          toggleProduct(i, isChecked)
    \/ addSelectedToQueue
    \/ \E i \in DOMAIN queueItems : removeFromQueue(i)
    \/ toggleGroupByManufacturer
    \/ DragAndDrop

SpecDrag == InitInHost /\ [][NextDrag]_vars

(***************************************************************************)
(* SpecFilter: the option lists of the category and subcategory boxes.      *)
(* Either manufacturer, every filter, loadFilterOptions called on its own,  *)
(* the distributor tabs, and requests that are answered or fail.            *)
(***************************************************************************)
NextFilter ==
    \/ ManufacturerPicked(Manufacturers)
    \/ \E filterType \in {"category", "subcategory", "skuType"},
          value \in Categories \cup Subcategories \cup SkuTypes \cup {""} :
          onFilterChange(filterType, value)
    \/ \E filterType \in {"category", "subcategory"} :
          loadFilterOptions(filterType)
    \/ FilterAnswered
    \/ \E distributor \in DOMAIN DISTRIBUTORS : selectDistributor(distributor)

SpecFilter == InitInHost /\ [][NextFilter]_vars

(***************************************************************************)
(* SpecSearch: finding the manufacturer and the SKU by typing.  The search  *)
(* boxes with their timeouts, the manufacturers the search offers, the      *)
(* pages, and searches that are answered or fail.                           *)
(***************************************************************************)
\* The manufacturers whose name starts as the search term does.
ManufacturersMatching(searchTerm) ==
    IF searchTerm[1] = "a" THEN {"Acme"}
    ELSE IF searchTerm[1] = "z" THEN {"Zeta"} ELSE {}

NextSearch ==
    \/ \E value \in {<<>>, <<"a", "c">>, <<"z", " ">>} :
          debounceManufacturerSearch(value)
    \/ searchManufacturers
    \/ \E k \in DOMAIN searchFetches :
          \E manufacturers \in
                 {ManufacturersMatching(searchFetches[k].search), {}} :
              ManufacturersLoaded(k, manufacturers)
    \/ \E k \in DOMAIN searchFetches : ManufacturersFailed(k)
    \/ \E value \in manufacturerSelect.items \cup {""} :
          onManufacturerSelect(value)
    \/ \E k \in DOMAIN filterFetches :
          FilterSettled(k, TRUE, OptionsFor(filterFetches[k]))
    \/ \E value \in KeywordInputs : debounceSkuSearch(value)
    \/ searchSkus
    \/ \E k \in DOMAIN skuFetches, products \in {<<>>, <<ProdC>>} :
          SkusLoaded(k, products)
    \/ \E k \in DOMAIN skuFetches : SkusFailed(k)
    \/ \E page \in OfferedPages : loadProducts(page)
    \/ PageAnswered({<<ProdC>>})

SpecSearch == InitInHost /\ [][NextSearch]_vars

(***************************************************************************)
(* The revision of src/js/widget.js.  It differs from the one above in what *)
(* it shows as totals: displayProductsWithPricing shows the totalRecords of  *)
(* the pagination object it is given, loadProducts stores no totals, and    *)
(* addSelectedToQueue draws the page again with totals of its own.          *)
(***************************************************************************)
widgetJsDisplayProductsWithPricing(products, pager, queue) ==
    LET sortedProducts == SortProducts(products)
    IN  /\ currentProducts' = sortedProducts
        /\ pricingData' = CacheFill(EmptyCache, sortedProducts)
        /\ productsBody' = ProductRows(sortedProducts, queue)
        /\ productCount' = pager[1].totalRecords
        /\ pagination' = renderPagination(pager)

\* The rest of loadProducts once fetch i has answered with `data`, an answer
\* that carries its pagination object.
widgetJsProductsLoaded(i, data) ==
    /\ ~Closed
    /\ i \in 1..Len(productFetches)
    /\ productFetches' = RemoveAt(productFetches, i)
    /\ IF Len(data.products) > 0
       THEN /\ widgetJsDisplayProductsWithPricing(data.products,
                                                  data.pagination,
                                                  queuedProducts)
            /\ filterStatus' = Status("", 0)
       ELSE /\ productsBody' = <<>>
            /\ pagination' = <<>>
            /\ productCount' = 0
            /\ filterStatus' = Status("info", 0)
            /\ UNCHANGED <<currentProducts, pricingData>>
    /\ UNCHANGED <<filterVars, currentPage, totalRecords, totalPages,
                   queueVars, dragVars, hostVars, detailVars, searchVars,
                   skuSearch, skuSearchVars, selectedProducts>>

widgetJsAddSelectedToQueue ==
    /\ UserCanAct
    /\ IF Len(selectedProducts) = 0
       THEN /\ filterStatus' = Status("error", 0)
            /\ UNCHANGED <<filterVars, pageVars, queueVars, dragVars,
                           hostVars, detailVars, selectedProducts>>
       ELSE LET pushed == PushSelected(selectedProducts, queuedProducts, 0,
                                       pricingData)
            IN  /\ queuedProducts' = pushed.queue
                /\ selectedProducts' = <<>>
                /\ IF Len(currentProducts) > 0
                   THEN widgetJsDisplayProductsWithPricing(
                            currentProducts,
                            <<[page |-> currentPage, totalPages |-> 1,
                               totalRecords |-> Len(currentProducts)]>>,
                            pushed.queue)
                   ELSE UNCHANGED <<currentProducts, pricingData, productsBody,
                                    pagination, productCount>>
                /\ updateQueueUI(pushed.queue)
                /\ filterStatus' =
                       IF pushed.addedCount > 0
                       THEN Status("success", pushed.addedCount)
                       ELSE Status("info", 0)
                /\ UNCHANGED <<filterVars, currentPage, totalRecords, totalPages,
                               productFetches, groupByManufacturer, dragVars,
                               hostVars, detailVars>>
    /\ UNCHANGED <<searchVars, skuSearch, skuSearchVars>>

\* SpecWidgetJs: pages loaded and products committed in that revision.
NextWidgetJs ==
    \/ ManufacturerPicked({"Acme"})
    \/ \E k \in DOMAIN filterFetches :
          FilterSettled(k, TRUE, OptionsFor(filterFetches[k]))
    \/ \E page \in OfferedPages : loadProducts(page)
    \/ \E i \in DOMAIN productFetches :
          \E data \in ProductResponses(productFetches[i], SessionPages) :
              widgetJsProductsLoaded(i, data)
    \/ \E i \in DOMAIN productFetches : ProductsFailed(i)
    \/ \E i \in DOMAIN productsBody, isChecked \in BOOLEAN :
          toggleProduct(i, isChecked)
    \/ widgetJsAddSelectedToQueue
    \/ \E i \in DOMAIN queueItems : removeFromQueue(i)

SpecWidgetJs == InitInHost /\ [][NextWidgetJs]_vars

(***************************************************************************)
(* SpecPages: loadProducts called with any page number, the pager buttons   *)
(* being one caller among others.                                           *)
(***************************************************************************)
PageInputs == (0 - 1)..(MaxPage + 1)

NextPages ==
    \/ ManufacturerPicked({"Acme"})
    \/ \E k \in DOMAIN filterFetches :
          FilterSettled(k, TRUE, OptionsFor(filterFetches[k]))
    \/ \E page \in PageInputs : loadProducts(page)
    \/ PageAnswered(SessionPages)
    \/ \E i \in DOMAIN productFetches : ProductsFailed(i)
    \/ \E i \in DOMAIN productsBody, isChecked \in BOOLEAN :
          toggleProduct(i, isChecked)
    \/ addSelectedToQueue

SpecPages == InitInHost /\ [][NextPages]_vars

(***************************************************************************)
(* SpecSort: pages answered with the three products of the catalog in any   *)
(* arrangement, and the info buttons of the rows, whose fetches are         *)
(* answered or fail.                                                        *)
(***************************************************************************)
SortPages ==
    {<<p>> : p \in {ProdA, ProdB, ProdC}}
    \cup {s \in [1..2 -> {ProdA, ProdB, ProdC}] : s[1] # s[2]}
    \cup {s \in [1..3 -> {ProdA, ProdB, ProdC}] :
              s[1] # s[2] /\ s[1] # s[3] /\ s[2] # s[3]}

NextSort ==
    \/ ManufacturerPicked({"Acme"})
    \/ \E k \in DOMAIN filterFetches :
          FilterSettled(k, TRUE, OptionsFor(filterFetches[k]))
    \/ \E page \in OfferedPages : loadProducts(page)
    \/ PageAnswered(SortPages)
    \/ \E i \in DOMAIN productsBody : showProductDetails(i)
    \/ \E k \in DOMAIN detailsFetches, data \in PricingAnswers :
          DetailsPricingSettled(k, data)
    \/ \E k \in DOMAIN detailsFetches, data \in DetailsAnswers :
          DetailsSettled(k, data)
    \/ hideProductDetails

SpecSort == InitInHost /\ [][NextSort]_vars

(***************************************************************************)
(* SpecToggle: toggleProduct called with the part number of any product of  *)
(* the catalog, or with one no product has, over pages that differ.         *)
(***************************************************************************)
TogglePages == {<<>>, <<ProdA, ProdB>>, <<ProdC>>}
TogglePartNumbers ==
    {PartNumberOf(p) : p \in {ProdA, ProdB, ProdC}} \cup {<<"Z", 9>>}

NextToggle ==
    \/ ManufacturerPicked({"Acme"})
    \/ \E k \in DOMAIN filterFetches :
          FilterSettled(k, TRUE, OptionsFor(filterFetches[k]))
    \/ \E page \in OfferedPages : loadProducts(page)
    \/ PageAnswered(TogglePages)
    \/ \E partNumber \in TogglePartNumbers, isChecked \in BOOLEAN :
          toggleProductByPartNumber(partNumber, isChecked)

SpecToggle == InitInHost /\ [][NextToggle]_vars

(***************************************************************************)
(* SpecStale: manufacturer searches for two terms, answered in any order.   *)
(***************************************************************************)
NextStale ==
    \/ \E value \in {<<>>, <<"a", "c">>, <<"z", "e">>} :
          debounceManufacturerSearch(value)
    \/ searchManufacturers
    \/ \E k \in DOMAIN searchFetches :
          ManufacturersLoaded(k, ManufacturersMatching(searchFetches[k].search))
    \/ \E k \in DOMAIN searchFetches : ManufacturersFailed(k)
    \/ \E value \in manufacturerSelect.items \cup {""} :
          onManufacturerSelect(value)
    \/ \E k \in DOMAIN filterFetches :
          FilterSettled(k, TRUE, OptionsFor(filterFetches[k]))

SpecStale == InitInHost /\ [][NextStale]_vars

(***************************************************************************)
(* SpecFlags: the details panel of products that carry catalog flags, with  *)
(* pricing and product details that carry indicators.  The flags of one     *)
(* record all have the same value; each flag shown depends on its own       *)
(* properties only.                                                         *)
(***************************************************************************)
FlagValues == {"undefined", "true", "false"}

FlagProducts ==
    {[ingramPartNumber |-> <<"I", 4>>, vendorPartNumber |-> <<"A", 4>>,
      vendorName |-> "Acme", category |-> "", subCategory |-> "",
      pricingData |-> NoPricing, type |-> type,
      discontinued |-> flag, directShip |-> flag, newProduct |-> flag] :
        type \in {"IM::physical", "IM::Digital"},
        flag \in FlagValues \cup {"'true'", "'false'"}}

FlagPricingAnswers ==
    {NoPricing} \cup {<<[bundlePartIndicator |-> flag]>> : flag \in FlagValues}

FlagDetailsAnswers ==
    {<<>>} \cup
    {<<[indicators |->
           [isDigitalType |-> flag, hasBundle |-> flag,
            isLicenseProduct |-> flag, isServiceSku |-> flag,
            isDirectship |-> flag, isNewProduct |-> flag,
            isDiscontinuedProduct |-> flag]]>> : flag \in FlagValues}

NextFlags ==
    \/ ManufacturerPicked({"Acme"})
    \/ \E k \in DOMAIN filterFetches :
          FilterSettled(k, TRUE, OptionsFor(filterFetches[k]))
    \/ \E page \in OfferedPages : loadProducts(page)
    \/ PageAnswered({<<product>> : product \in FlagProducts})
    \/ \E i \in DOMAIN productsBody : showProductDetails(i)
    \/ \E k \in DOMAIN detailsFetches, data \in FlagPricingAnswers :
          DetailsPricingSettled(k, data)
    \/ \E k \in DOMAIN detailsFetches, data \in FlagDetailsAnswers :
          DetailsSettled(k, data)

SpecFlags == InitInHost /\ [][NextFlags]_vars

(***************************************************************************)
(* Properties of the queue and of the selection.                            *)
(***************************************************************************)
\* The part numbers of a sequence of products, in order.
IdSeq(products) == [i \in 1..Len(products) |-> PartNumberOf(products[i])]

NoRepetition(s) == \A i, j \in 1..Len(s) : s[i] = s[j] => i = j

\* C1: the queue never holds two entries with the same part number, whatever
\* commits, removals, clears, reorders, group reorders, cancels, page loads
\* and filter changes led to the state.
QueueUnique == NoRepetition(IdSeq(queuedProducts))

\* A second page load shows both queued products again: their rows are the
\* ones a commit could repeat.
QueueUniqueWitness ==
    /\ Len(queuedProducts) = 2
    /\ Len(productsBody) = 2
    /\ \A i \in 1..2 : productsBody[i].disabled
    /\ filterStatus.type = ""

\* C2: a commit of a non-empty selection appends to the queue the selected
\* products that are not queued yet, in the order of the selection, reports
\* as added count the growth of the queue, and leaves the selection empty.
CommitAppends ==
    [][(addSelectedToQueue /\ selectedProducts # <<>>) =>
        LET fresh == SelectSeq(selectedProducts,
                         LAMBDA p : PartNumberOf(p) \notin Ids(queuedProducts))
        IN  /\ IdSeq(queuedProducts') = IdSeq(queuedProducts) \o IdSeq(fresh)
            /\ SubSeq(queuedProducts', 1, Len(queuedProducts)) = queuedProducts
            /\ filterStatus'.n = Len(queuedProducts') - Len(queuedProducts)
            /\ selectedProducts' = <<>>]_vars

\* ProdA then ProdB were ticked, against the order of the page, and
\* committed behind nothing: the status reports two added.
CommitAppendsWitness ==
    /\ IdSeq(queuedProducts) = <<PartNumberOf(ProdA), PartNumberOf(ProdB)>>
    /\ filterStatus = Status("success", 2)
    /\ selectedProducts = <<>>

\* C3: no part number is both queued and selected, and every displayed row
\* of a queued product has its check box disabled, so that toggling a row or
\* all rows never selects a queued product.
QueueSelectionDisjoint ==
    /\ Ids(queuedProducts) \cap Ids(selectedProducts) = {}
    /\ \A i \in 1..Len(productsBody) :
           isQueued(queuedProducts, PartNumberOf(productsBody[i].product))
               => productsBody[i].disabled

\* One product of the page is queued, its row disabled, and the other one is
\* selected.
QueueSelectionDisjointWitness ==
    /\ Len(queuedProducts) = 1
    /\ Len(selectedProducts) = 1
    /\ \E i \in 1..Len(productsBody) : productsBody[i].disabled

\* C4: the selection only holds products of the page currently loaded.
SelectionOnPage == Ids(selectedProducts) \subseteq Ids(currentProducts)

ItemDrop == handleDrop /\ ~(groupByManufacturer /\ draggedGroup # NoElement)

\* s and t hold the same elements, each once.
IsPermutation(s, t) ==
    /\ Len(s) = Len(t)
    /\ Range(s) = Range(t)
    /\ NoRepetition(s)

\* The part numbers of the items of the list, top to bottom.
ListedOrder ==
    LET items == QueueItemsOf(queueItems)
    IN  [i \in 1..Len(items) |-> items[i].partNumber]

\* C6: the order of the listed items is taken over as the order of the queue
\* only when it is a permutation of the queued part numbers; otherwise the
\* reorder is given up and the queue stays as it is.
ReorderOnlyPermutation ==
    [][ItemDrop =>
        IF IsPermutation(ListedOrder, IdSeq(queuedProducts))
        THEN IdSeq(queuedProducts') = ListedOrder
        ELSE queuedProducts' = queuedProducts]_vars

\* The drop of a manufacturer header while grouping is on.
GroupDrop == handleDrop /\ groupByManufacturer /\ draggedGroup # NoElement

\* Position of x in the sequence s that holds it.
PositionIn(s, x) == CHOOSE i \in 1..Len(s) : s[i] = x

\* C7: a group reorder yields, for each manufacturer of the header order in
\* that order, the queue's entries of that manufacturer in the order they had.
GroupReorderStable ==
    [][GroupDrop =>
        LET mfrOrder == MfrOrderOf(queueItems)
            old == queuedProducts
            new == queuedProducts'
            G(p) == GroupOf(p, manufacturer)
        IN  /\ NoRepetition(new)
            /\ Range(new) = {p \in Range(old) : G(p) \in Range(mfrOrder)}
            /\ \A i, j \in 1..Len(new) : i < j =>
                   /\ PositionIn(mfrOrder, G(new[i])) <= PositionIn(mfrOrder, G(new[j]))
                   /\ G(new[i]) = G(new[j]) =>
                          PositionIn(old, new[i]) < PositionIn(old, new[j])]_vars

\* The Zeta header is being dragged above the Acme header; the queue has
\* ProdC of Zeta first, then ProdB and ProdA of Acme in the order they had.
GroupReorderStableWitness ==
    /\ draggedGroup = GroupElement("Zeta")
    /\ MfrOrderOf(queueItems) = <<"Zeta", "Acme">>
    /\ manufacturer = "Acme"
    /\ IdSeq(queuedProducts) =
           <<PartNumberOf(ProdC), PartNumberOf(ProdB), PartNumberOf(ProdA)>>

(***************************************************************************)
(* Properties of the hand-over to the host.                                 *)
(***************************************************************************)
\* C8: submitting an empty queue ends with an error status: nothing is handed
\* to the host and nothing else changes.
SubmitEmptyRejected ==
    [][(submitQueue /\ queuedProducts = <<>>) =>
        /\ filterStatus'.type = "error"
        /\ hostReceived' = hostReceived
        /\ UNCHANGED <<filterVars, pageVars, queueVars, dragVars, detailVars,
                       currentDistributor, clientDefined, selectedProducts>>]_vars

\* The error status of a submit: the queue is empty while a product is
\* selected, so neither a commit nor a page load reported the error.
SubmitEmptyRejectedWitness ==
    /\ queuedProducts = <<>>
    /\ selectedProducts # <<>>
    /\ productFetches = <<>>
    /\ manufacturer # ""
    /\ filterStatus = Status("error", 0)
    /\ hostReceived = <<>>

\* C9: inside the host, submitting a non-empty queue hands over one record
\* per queue entry, in queue order, with Quantity 1 and with the display name
\* of the active distributor as Last_Sync_Source, together with the
\* distributor's id; the queue stays as it is.
SubmitHandsQueue ==
    [][(submitQueue /\ queuedProducts # <<>> /\ clientDefined) =>
        /\ Len(hostReceived') = 1
        /\ DOMAIN hostReceived'[1] = {"products", "distributor"}
        /\ hostReceived'[1].distributor = currentDistributor
        /\ Len(hostReceived'[1].products) = Len(queuedProducts)
        /\ \A i \in 1..Len(queuedProducts) :
               LET sent == hostReceived'[1].products[i]
               IN  /\ sent.Product_Code = queuedProducts[i].vendorPartNumber
                   /\ sent.Ingram_Micro_SKU = queuedProducts[i].ingramPartNumber
                   /\ sent.Quantity = 1
                   /\ sent.Last_Sync_Source = DISTRIBUTORS[currentDistributor].name
        /\ queuedProducts' = queuedProducts]_vars

\* The host received a queue of two products.
SubmitHandsQueueWitness ==
    /\ hostReceived # <<>>
    /\ "distributor" \in DOMAIN hostReceived[1]
    /\ Len(hostReceived[1].products) = 2
    /\ Len(queuedProducts) = 2

\* C10: cancel hands the host { cancelled: true, products: [] } and leaves
\* the queue and the selection empty.
CancelClears ==
    [][cancelSelection =>
        /\ clientDefined =>
               hostReceived' = <<[cancelled |-> TRUE, products |-> <<>>]>>
        /\ queuedProducts' = <<>>
        /\ selectedProducts' = <<>>]_vars

\* The host was told of the cancel; the list still shows the items of the
\* queue that was dropped.
CancelClearsWitness ==
    /\ hostReceived = <<[cancelled |-> TRUE, products |-> <<>>]>>
    /\ queueItems # <<>>
    /\ queuedProducts = <<>>
    /\ selectedProducts = <<>>

(***************************************************************************)
(* Properties of the filters and of the pages.                              *)
(***************************************************************************)
\* C11: the remove button of an item takes out of the queue exactly the
\* entry with the part number of the item, the other entries keeping their
\* order, and changes nothing when no entry has that part number; clearing
\* leaves the queue empty.
RemoveAndClear ==
    [][/\ \A i \in DOMAIN queueItems :
             removeFromQueue(i) =>
                 LET partNumber == queueItems[i].partNumber
                 IN  IF partNumber \in Ids(queuedProducts)
                     THEN \E k \in DOMAIN queuedProducts :
                              /\ PartNumberOf(queuedProducts[k]) = partNumber
                              /\ queuedProducts' = RemoveAt(queuedProducts, k)
                     ELSE queuedProducts' = queuedProducts
       /\ clearQueue => queuedProducts' = <<>>]_vars

\* Two products were committed together and the first was removed since:
\* the list shows the second alone.
RemoveAndClearWitness ==
    /\ filterStatus = Status("success", 2)
    /\ IdSeq(queuedProducts) = <<PartNumberOf(ProdB)>>
    /\ Len(QueueItemsOf(queueItems)) = 1
    /\ \A i \in DOMAIN productsBody :
           productsBody[i].disabled <=> productsBody[i].product = ProdB


\* C12: picking a manufacturer empties category, subcategory, keyword and
\* sku type, drops the cached parameters of both option lists, and empties
\* the product page and the selection; clearing the manufacturer box leaves
\* the empty filter and sends no request.
ManufacturerResets ==
    [][\A value \in Manufacturers \cup {""} :
          onManufacturerSelect(value) =>
              /\ manufacturer' = value
              /\ category' = "" /\ subcategory' = ""
              /\ skuKeyword' = <<>> /\ skuType' = ""
              /\ filterParams'.category = NoParams
              /\ filterParams'.subcategory = NoParams
              /\ currentProducts' = <<>> /\ productsBody' = <<>>
              /\ selectedProducts' = <<>>
              /\ value = "" =>
                     /\ filterFetches' = filterFetches
                     /\ productFetches' = productFetches
                     /\ detailsFetches' = detailsFetches]_vars

\* The manufacturer box was cleared over a loaded page: the totals of the
\* page are still there, its products and the filters are not.
ManufacturerResetsWitness ==
    /\ manufacturer = ""
    /\ totalRecords > 0
    /\ currentProducts = <<>> /\ productsBody = <<>>
    /\ selectedProducts = <<>>
    /\ category = "" /\ subcategory = "" /\ skuType = "" /\ skuKeyword = <<>>
    /\ filterParams = [category |-> NoParams, subcategory |-> NoParams]
    /\ Outstanding = 0

\* The product page is empty after the step.
PageEmptied == currentProducts' = <<>> /\ productsBody' = <<>>

\* C13: a change of category leaves the manufacturer alone, drops the cached
\* parameters of the subcategory list and empties the product page; a change
\* of subcategory, sku type or keyword empties the product page and leaves
\* manufacturer and category alone.
CascadingInvalidation ==
    [][/\ \A value \in Categories \cup {""} :
             onFilterChange("category", value) =>
                 /\ manufacturer' = manufacturer
                 /\ filterParams'.subcategory = NoParams
                 /\ PageEmptied
       /\ \A filterType \in {"subcategory", "skuType"},
             value \in Subcategories \cup SkuTypes \cup {""} :
             onFilterChange(filterType, value) =>
                 /\ manufacturer' = manufacturer /\ category' = category
                 /\ PageEmptied
       /\ \A value \in KeywordInputs :
             skuSearchInput(value) /\ skuKeyword' # skuKeyword =>
                 /\ manufacturer' = manufacturer /\ category' = category
                 /\ PageEmptied]_vars

\* The parameters a load would be made under now.
TupleNow == ParamsOf(manufacturer, category, subcategory, skuType)

\* The option list of the filter was last loaded under the parameters of now.
Cached(filterType) == filterParams[filterType] = TupleNow

\* The requests for the option list of the filter that are not answered yet.
PendingFor(filterType) ==
    {k \in DOMAIN filterFetches : filterFetches[k].filterType = filterType}

\* The step is a change event of the manufacturer box or of a filter box, or
\* a click on a distributor tab.
FilterChanged ==
    \/ \E value \in Manufacturers \cup {""} : onManufacturerSelect(value)
    \/ \E filterType \in {"category", "subcategory", "skuType"},
          value \in Categories \cup Subcategories \cup SkuTypes \cup {""} :
          onFilterChange(filterType, value)
    \/ \E distributor \in DOMAIN DISTRIBUTORS : selectDistributor(distributor)

\* C14: a second loadFilterOptions of the same filter sends nothing, be it
\* called while the request of the first waits or after the first succeeded,
\* no filter having been changed in between: the call sends nothing while a
\* request waits or the parameters of now are the cached ones; an answer to a
\* request made under the parameters of now caches them; and they stay
\* cached over every step that is not a change of a filter.
FilterCacheIdempotent ==
    [][\A filterType \in {"category", "subcategory"} :
          /\ loadFilterOptions(filterType)
                 /\ (Cached(filterType) \/ PendingFor(filterType) # {})
                 => filterFetches' = filterFetches
          /\ \A k \in PendingFor(filterType) :
                 FilterSettled(k, TRUE, OptionsFor(filterFetches[k]))
                     /\ filterFetches[k].currentParams = TupleNow
                     => Cached(filterType)'
          /\ Cached(filterType) /\ ~FilterChanged
                 => Cached(filterType)']_vars

\* The categories were loaded under the filter values of now, a category
\* being chosen, and a request for the subcategories waits.
FilterCacheIdempotentWitness ==
    /\ category # ""
    /\ Cached("category")
    /\ categorySelect.items # {}
    /\ PendingFor("subcategory") # {}
    /\ PendingFor("category") = {}

\* C15: no filter ever has two requests for its option list waiting; a call
\* made while one waits sends nothing, and the answer to the one that waits
\* sends nothing either.
OneLoadPerFilter ==
    [][\A filterType \in {"category", "subcategory"} :
          /\ Cardinality(PendingFor(filterType)') <= 1
          /\ loadFilterOptions(filterType) /\ PendingFor(filterType) # {}
                 => filterFetches' = filterFetches
          /\ FilterAnswered => Len(filterFetches') < Len(filterFetches)]_vars

\* A request waits for each of the two filters.
OneLoadPerFilterWitness ==
    /\ Len(filterFetches) = 2
    /\ Cardinality(PendingFor("category")) = 1
    /\ Cardinality(PendingFor("subcategory")) = 1
    /\ loadingFilters = [category |-> TRUE, subcategory |-> TRUE]

\* C16: an answered load caches the parameters it was sent under; a failed
\* one leaves the cached parameters alone, leaves in the box the option that
\* was chosen in it when the load was sent, and shows the error.
LoadOutcome ==
    [][\A k \in DOMAIN filterFetches :
          LET f == filterFetches[k]
              box == IF f.filterType = "category" THEN categorySelect'
                     ELSE subcategorySelect'
          IN  /\ FilterSettled(k, TRUE, OptionsFor(f))
                     => filterParams'[f.filterType] = f.currentParams
              /\ FilterSettled(k, FALSE, {})
                     => /\ filterParams' = filterParams
                        /\ box.first = "-- Error --"
                        /\ f.currentValue # "" => f.currentValue \in box.items]_vars

\* The step sends no request of any kind.
NothingSent ==
    /\ productFetches' = productFetches
    /\ filterFetches' = filterFetches
    /\ detailsFetches' = detailsFetches
    /\ searchFetches' = searchFetches
    /\ skuFetches' = skuFetches

PagesOneBased ==
    /\ currentPage >= 1
    /\ \A i \in DOMAIN productFetches : productFetches[i].page >= 1

\* The number of pages a pager says there are; no pager is drawn for one.
PagesShown(pager) == IF pager = <<>> THEN 1 ELSE pager[1].totalPages

\* C19: the number of records and the number of pages on display are those
\* of the last page that was answered with products, and a commit, which
\* draws the page again, leaves them as they are.
TotalsOfLastAnswer ==
    [][/\ \A i \in DOMAIN productFetches :
             \A data \in ProductResponses(productFetches[i], SessionPages) :
                 (ProductsLoaded(i, data) \/ widgetJsProductsLoaded(i, data))
                     /\ Len(data.products) > 0
                     => /\ productCount' = data.pagination[1].totalRecords
                        /\ PagesShown(pagination') =
                               data.pagination[1].totalPages
       /\ (addSelectedToQueue \/ widgetJsAddSelectedToQueue)
             => /\ productCount' = productCount
                /\ PagesShown(pagination') = PagesShown(pagination)]_vars

\* C20: an answer without products empties the list of current products and
\* shows an informational status.
EmptyAnswerClears ==
    [][\A i \in DOMAIN productFetches :
          \A data \in ProductResponses(productFetches[i], SessionPages) :
              ProductsLoaded(i, data) /\ data.products = <<>>
                  => /\ currentProducts' = <<>>
                     /\ filterStatus'.type = "info"]_vars


(***************************************************************************)
(* Properties of the pages, of the searches and of the details panel.       *)
(***************************************************************************)
\* C21: a page request that fails leaves the current products, the rows
\* drawn, the selection and the queue as the request found them (loadProducts
\* does not touch them before its fetch either), an empty list staying empty,
\* and shows an error status.
TransportFailureKeeps ==
    [][/\ \A page \in OfferedPages :
             loadProducts(page) =>
                 UNCHANGED <<currentProducts, productsBody,
                             selectedProducts, queuedProducts>>
       /\ \A i \in DOMAIN productFetches :
             ProductsFailed(i) =>
                 /\ UNCHANGED <<currentProducts, productsBody,
                                selectedProducts, queuedProducts>>
                 /\ filterStatus'.type = "error"]_vars

\* The request for the second page has failed over a first page with ProdA
\* in the queue and ProdB ticked: the pager still shows page 1 of 2.
TransportFailureKeepsWitness ==
    /\ productFetches = <<>>
    /\ filterStatus = Status("error", 0)
    /\ currentPage = 2
    /\ pagination = <<[page |-> 1, totalPages |-> 2]>>
    /\ Ids(currentProducts) = {PartNumberOf(ProdA), PartNumberOf(ProdB)}
    /\ IdSeq(selectedProducts) = <<PartNumberOf(ProdB)>>
    /\ IdSeq(queuedProducts) = <<PartNumberOf(ProdA)>>

\* Part number a comes no later than b in natural order: letters without
\* regard to case, then the digits as one number.
NaturalLeq(a, b) ==
    LET Letter(l) == IF l \in {"a", "A"} THEN 1
                     ELSE IF l \in {"i", "I"} THEN 2 ELSE 3
    IN  \/ Letter(a[1]) < Letter(b[1])
        \/ Letter(a[1]) = Letter(b[1]) /\ a[2] <= b[2]

\* What the info button of row i leads to: the product the panel is opened
\* for.
Inspected(i) ==
    IF currentProducts[i].ingramPartNumber = NoPart
    THEN productDetailsSection'.shown[1].product
    ELSE detailsFetches'[Len(detailsFetches')].product

\* C22: a page answered with products leaves as current products a
\* permutation of the answer in natural order of the vendor part numbers
\* (a1 before A2 before A10), the rows follow that list, and the info button
\* of a row opens the panel for the product of that row.
SortedNaturally ==
    [][/\ \A i \in DOMAIN productFetches :
             \A data \in ProductResponses(productFetches[i], SortPages) :
                 ProductsLoaded(i, data) /\ data.products # <<>> =>
                     /\ IsPermutation(currentProducts', data.products)
                     /\ \A j, k \in DOMAIN currentProducts' :
                            j < k => NaturalLeq(
                                currentProducts'[j].vendorPartNumber,
                                currentProducts'[k].vendorPartNumber)
                     /\ productsBody' =
                            [j \in DOMAIN currentProducts' |->
                                [product |-> currentProducts'[j],
                                 disabled |-> productsBody'[j].disabled]]
       /\ \A i \in DOMAIN productsBody :
             showProductDetails(i) =>
                 Inspected(i) = productsBody[i].product]_vars

\* The page was answered as A10, A2, a1 and lists a1, A2, A10; the panel
\* was opened from the second row and shows A2.
SortedNaturallyWitness ==
    /\ [j \in DOMAIN currentProducts |-> currentProducts[j].vendorPartNumber]
           = << <<"a", 1>>, <<"A", 2>>, <<"A", 10>> >>
    /\ productDetailsSection.display
    /\ productDetailsSection.shown = FullProductData(ProdB, NoPricing, <<>>)

\* C23: toggleProduct changes the selection only for the part number of a
\* row of the page drawn, which is a product of state.currentProducts; for
\* any other part number the selection stays as it was.
ToggleOnlyOnPage ==
    [][\A partNumber \in TogglePartNumbers, isChecked \in BOOLEAN :
          toggleProductByPartNumber(partNumber, isChecked) =>
              /\ selectedProducts' # selectedProducts =>
                     /\ \E i \in DOMAIN productsBody :
                            PartNumberOf(productsBody[i].product) = partNumber
                     /\ partNumber \in Ids(currentProducts)
              /\ (\A i \in DOMAIN productsBody :
                      PartNumberOf(productsBody[i].product) # partNumber)
                     => selectedProducts' = selectedProducts]_vars

\* The page shows ProdC alone; ProdA was ticked on the page before and ProdC
\* on this one: the tick of ProdA is out of reach of the rows.
ToggleOnlyOnPageWitness ==
    /\ IdSeq(currentProducts) = <<PartNumberOf(ProdC)>>
    /\ Len(productsBody) = 1
    /\ IdSeq(selectedProducts) = <<PartNumberOf(ProdA), PartNumberOf(ProdC)>>

\* C24: once every manufacturer search has settled, the last of them to
\* settle with names, and none is scheduled, the names offered are those of
\* the search fired last, whose term is the one the search box holds.
StaleSearchNotApplied ==
    /\ searchFetches = <<>>
    /\ searchTimeout = 0
    /\ Len(Trim(manufacturerSearch)) >= 2
    /\ filterStatus.type = "success"
    /\ manufacturerSelect.first = "-- Select a manufacturer --"
    => manufacturerSelect.items = ManufacturersMatching(Trim(manufacturerSearch))

\* C25: at most one timeout of each search box is pending; an input event
\* leaves exactly one pending and sends nothing; a search is sent only when
\* the timeout expires, once, for what the box holds at that moment, and no
\* timeout is pending afterwards.
DebounceLatestWins ==
    [][/\ searchTimeout' <= 1
       /\ skuSearchTimeout' <= 1
       /\ \A value \in SearchInputs :
             debounceManufacturerSearch(value) =>
                 searchTimeout' = 1 /\ searchFetches' = searchFetches
       /\ \A value \in KeywordInputs :
             debounceSkuSearch(value) =>
                 skuSearchTimeout' = 1 /\ skuFetches' = skuFetches
       /\ Len(searchFetches') > Len(searchFetches) =>
             /\ searchTimeout = 1 /\ searchTimeout' = 0
             /\ searchFetches' = Append(searchFetches,
                                        [search |-> Trim(manufacturerSearch)])
       /\ Len(skuFetches') > Len(skuFetches) =>
             /\ skuSearchTimeout = 1 /\ skuSearchTimeout' = 0
             /\ Len(skuFetches') = Len(skuFetches) + 1
             /\ skuFetches'[Len(skuFetches')].keyword = Trim(skuSearch)
       /\ searchManufacturers /\ Len(Trim(manufacturerSearch)) >= 2
             => Len(searchFetches') = Len(searchFetches) + 1
       /\ searchSkus /\ Len(Trim(skuSearch)) >= 2 /\ manufacturer # ""
             => Len(skuFetches') = Len(skuFetches) + 1]_vars

\* The manufacturer search for what the box holds is under way and its
\* timeout is spent, while the timeout of the keyword box is pending.
DebounceLatestWinsWitness ==
    /\ searchTimeout = 0
    /\ searchFetches = <<[search |-> <<"a", "c">>]>>
    /\ manufacturerSearch = <<"a", "c">>
    /\ skuSearchTimeout = 1
    /\ skuSearch = <<"k", "w">>

\* The call k of showProductDetails runs to its end in this step: the last
\* of its fetches settles.
CallCompletes(k) ==
    /\ \/ \E data \in PricingAnswers : DetailsPricingSettled(k, data)
       \/ \E data \in DetailsAnswers : DetailsSettled(k, data)
    /\ Len(detailsFetches') < Len(detailsFetches)

\* C26: when a call of showProductDetails completes after another call was
\* made, the panel keeps what it shows; when it is the latest call, the
\* panel shows its product; a panel that was closed stays closed.
SupersededDetailsIgnored ==
    [][\A k \in DOMAIN detailsFetches :
          CallCompletes(k) =>
              /\ productDetailsSection'.display = productDetailsSection.display
              /\ IF detailsFetches[k].latest
                 THEN productDetailsSection'.shown[1].product
                          = detailsFetches[k].product
                 ELSE productDetailsSection'.shown
                          = productDetailsSection.shown]_vars

\* C27: every call of showProductDetails for a listed product, whatever part
\* number identifies the product, sends the product details fetch, and sends
\* the pricing fetch exactly when no pricing is cached under that part
\* number.
DetailsFetchesIssued ==
    [][\A i \in DOMAIN productsBody :
          showProductDetails(i) /\ i \in DOMAIN currentProducts =>
              LET partNumber == PartNumberOf(currentProducts[i])
                  call == detailsFetches'[Len(detailsFetches')]
              IN  /\ Len(detailsFetches') = Len(detailsFetches) + 1
                  /\ call.product = currentProducts[i]
                  /\ call.detailsPending
                  /\ call.pricingPending
                         <=> CacheGet(pricingData, partNumber) = NoPricing]_vars

\* C28: the panel is filled only when the last fetch of a call settles,
\* whichever it is, with the product, the pricing and the product details
\* that were answered; a fetch that failed (NoPricing, <<>>) leaves its part
\* absent, and no settlement changes the status.
DetailsJoined ==
    [][\A k \in DOMAIN detailsFetches :
          LET call == detailsFetches[k]
          IN  /\ \A data \in PricingAnswers :
                     DetailsPricingSettled(k, data) =>
                         /\ filterStatus' = filterStatus
                         /\ IF call.detailsPending
                            THEN /\ productDetailsSection' = productDetailsSection
                                 /\ Len(detailsFetches') = Len(detailsFetches)
                            ELSE productDetailsSection'.shown =
                                     FullProductData(call.product, data,
                                                     call.productDetails)
              /\ \A data \in DetailsAnswers :
                     DetailsSettled(k, data) =>
                         /\ filterStatus' = filterStatus
                         /\ IF call.pricingPending
                            THEN /\ productDetailsSection' = productDetailsSection
                                 /\ Len(detailsFetches') = Len(detailsFetches)
                            ELSE productDetailsSection'.shown =
                                     FullProductData(call.product,
                                                     call.pricingData, data)]_vars

\* The pricing fetch for ProdC was answered and its product details fetch
\* failed: the panel shows ProdC with the pricing, without details, and no
\* error.
DetailsJoinedWitness ==
    /\ detailsFetches = <<>>
    /\ productDetailsSection.display
    /\ productDetailsSection.shown = FullProductData(ProdC, <<30>>, <<>>)
    /\ filterStatus.type # "error"

\* C29: a pricing record of the cache stays in the cache, whatever the step:
\* a page being answered, a filter being changed, a commit to the queue.
PricingCacheKept ==
    [][\A partNumber \in DOMAIN pricingData :
          partNumber \in DOMAIN pricingData']_vars

\* The indicator of the product details the panel shows, "undefined" when
\* there is none.
IndicatorShown(name) ==
    LET productDetails == productDetailsSection.shown[1].productDetails
    IN  IF productDetails = <<>> THEN "undefined"
        ELSE Property(productDetails[1].indicators, name)

\* C30: each of the flags Digital, Bundle, Direct Ship, New and Discontinued
\* of the panel shows the indicator of the product details whenever that
\* indicator is true or false, whatever the flag of the product or of the
\* pricing.
FlagPrecedence ==
    productDetailsSection.shown # <<>> =>
        \A pair \in {<<"Digital", "isDigitalType">>, <<"Bundle", "hasBundle">>,
                     <<"DirectShip", "isDirectship">>,
                     <<"New", "isNewProduct">>,
                     <<"Discontinued", "isDiscontinuedProduct">>} :
            IndicatorShown(pair[2]) \in {"true", "false"} =>
                flagsGrid[1][pair[1]] = yesNo(IndicatorShown(pair[2]))


(***************************************************************************)
(* Properties of what is shown against what the state holds.                *)
(***************************************************************************)
\* C31: the drop of a manufacturer header leaves in the queue the part
\* numbers it held, each once, whatever was done to the manufacturer box
\* since the list was drawn.
GroupReorderKeepsAll ==
    [][GroupDrop =>
        /\ Ids(queuedProducts') = Ids(queuedProducts)
        /\ Len(queuedProducts') = Len(queuedProducts)]_vars

\* C32: the answer to a page request made under another manufacturer,
\* category, subcategory or type than the ones now selected leaves the
\* product list and the rows as they are.
StaleAnswerDropped ==
    [][\A i \in DOMAIN productFetches :
          LET f == productFetches[i]
          IN  /\ \E data \in ProductResponses(f, BrowsePages) :
                     ProductsLoaded(i, data)
              /\ <<f.vendor, f.category, f.subCategory, f.type>>
                     # <<manufacturer, category, subcategory, skuType>>
              => UNCHANGED <<currentProducts, productsBody>>]_vars

\* C33: once every option request has settled, the categories offered for
\* the selected manufacturer were answered to a request made for that
\* manufacturer (state.filterParams.category holds the parameters of the
\* request whose answer filled the box).
CategoriesOfManufacturer ==
    /\ filterFetches = <<>>
    /\ manufacturer # ""
    /\ categorySelect.items # {}
    /\ filterParams.category # NoParams
    => filterParams.category[1] = manufacturer

CatalogOptionsFor(f) ==
    IF f.filterType = "category" THEN CatalogCategories
    ELSE IF f.currentParams[2] = "Laptops" THEN {"Ultrabooks"}
    ELSE IF f.currentParams[2] = "Phones" THEN {"Android"}
    ELSE CatalogSubcategories

NextReload ==
    \/ ManufacturerPicked({"Acme"})
    \/ \E filterType \in {"category", "subcategory"},
          value \in CatalogCategories \cup CatalogSubcategories \cup {""} :
          onFilterChange(filterType, value)
    \/ \E k \in DOMAIN filterFetches :
          FilterSettled(k, TRUE, CatalogOptionsFor(filterFetches[k]))
    \/ \E page \in OfferedPages : loadProducts(page)
    \/ PageAnswered(SessionPages)

SpecReload == InitInHost /\ [][NextReload]_vars

\* C35: with no option load under way and the subcategory box holding a list
\* that was loaded, state.subcategory is empty or is one of the options the
\* box offers.
SubcategoryOffered ==
    /\ filterFetches = <<>>
    /\ subcategorySelect.first = "-- Any --"
    => subcategory = "" \/ subcategory \in subcategorySelect.items

(***************************************************************************)
(* SpecCache: the option lists against the parameters they were loaded      *)
(* under.  One manufacturer, every filter of the catalog, loadFilterOptions *)
(* called on its own, and option loads that are answered or fail.           *)
(***************************************************************************)
NextCache ==
    \/ ManufacturerPicked({"Acme"})
    \/ \E filterType \in {"category", "subcategory", "skuType"},
          value \in CatalogCategories \cup CatalogSubcategories \cup SkuTypes \cup {""} :
          onFilterChange(filterType, value)
    \/ \E filterType \in {"category", "subcategory"} :
          loadFilterOptions(filterType)
    \/ \E k \in DOMAIN filterFetches, ok \in BOOLEAN :
          FilterSettled(k, ok, IF ok THEN CatalogOptionsFor(filterFetches[k]) ELSE {})

SpecCache == InitInHost /\ [][NextCache]_vars

\* C36: when loadFilterOptions(filterType) would return at once because the
\* parameters of now are the cached ones, the box of filterType holds the
\* list the service answers under those parameters: not an emptied box, not
\* the error option, not the list of other parameters.
CacheHitHoldsList ==
    \A filterType \in {"category", "subcategory"} :
        ~loadingFilters[filterType] /\ Cached(filterType) =>
            /\ SelectOf(filterType).first = "-- Any --"
            /\ SelectOf(filterType).items
                   = CatalogOptionsFor([filterType |-> filterType,
                                        currentParams |-> TupleNow])

\* The subcategories of Phones were loaded under the filter values of now:
\* a call of loadFilterOptions('subcategory') returns at once.
CacheHitHoldsListWitness ==
    /\ category = "Phones"
    /\ ~loadingFilters["subcategory"]
    /\ Cached("subcategory")
    /\ subcategorySelect.items = {"Android"}
    /\ ENABLED loadFilterOptions("subcategory")

\* C37: with no page request under way and a pager drawn under the rows,
\* state.currentPage is the page the pager names: the page of the rows shown.
CurrentPageShown ==
    /\ productFetches = <<>>
    /\ productsBody # <<>>
    /\ pagination # <<>>
    => currentPage = pagination[1].page

\* C38: while the widget is open, the check box of a row shown is disabled
\* exactly when the product of the row is in the queue.
DisabledIffQueued ==
    ~Closed => \A i \in 1..Len(productsBody) :
        productsBody[i].disabled
            <=> isQueued(queuedProducts, PartNumberOf(productsBody[i].product))

\* C39: the loading flag of a filter is up exactly while a request for the
\* options of that filter awaits its answer, and there is one such request at
\* most: a request that settled, answered or failed, leaves the flag down,
\* and loadFilterOptions is not held back by it.
LoadingWhileInFlight ==
    \A filterType \in {"category", "subcategory"} :
        /\ loadingFilters[filterType] <=> PendingFor(filterType) # {}
        /\ Cardinality(PendingFor(filterType)) <= 1

\* The load of the categories failed and its flag is down, while the load of
\* the subcategories still waits with its flag up.
LoadingWhileInFlightWitness ==
    /\ categorySelect.first = "-- Error --"
    /\ ~loadingFilters["category"]
    /\ PendingFor("category") = {}
    /\ loadingFilters["subcategory"]
    /\ PendingFor("subcategory") # {}

=============================================================================
